---------------------------- MODULE Spec2Model ----------------------------
(***************************************************************************)
(* Model of the VerifAI side panel (src/content.js): the fact-check        *)
(* session driven by handleFactCheck / performFactCheck, the tool-calling  *)
(* loop with processToolCalls / performWebSearch, and the tool-support     *)
(* cache of checkModelToolSupport with its probes through fetchWithRetry.  *)
(*                                                                         *)
(* One TLA+ step is one JavaScript task together with the microtasks it    *)
(* triggers: a handler runs from its entry (or from the resumption of an   *)
(* await on a network call or timer) to its next await on a network call   *)
(* or timer.  Awaits on already settled promises do not end a step.        *)
(***************************************************************************)
EXTENDS Integers, Sequences, FiniteSets, TLC

(***************************************************************************)
(* Program constants (CONFIG, src/content.js:158-181).                     *)
(***************************************************************************)
MAX_SEARCH_ITERATIONS == 3
MAX_RETRIES == 3
RETRY_BASE_DELAY == 1000
TOOL_CACHE_DURATION == 3600000

(***************************************************************************)
(* Bounds of the model.                                                    *)
(***************************************************************************)
MaxSessions == 2      \* performFactCheck activations that can coexist
MaxToolCalls == 2     \* tool calls carried by one model response
MaxResults == 2       \* results returned by one web search
MaxProbes == 3        \* capability probes that can coexist
MaxTicks == 2         \* clock advances in one run
MaxRetriesArg == 3    \* largest maxRetries argument of fetchWithRetry
MaxWords == 2         \* words in the template or modelfile of a model

Models == {"m1", "m2"}
NoModel == ""
Claims == {"", "claim"}          \* claimInput.value.trim()
URLS == {"u1", "u2"}
NoUrl == ""                      \* a result whose url is empty (falsy)
\* a tool call: web_search with usable arguments, web_search whose arguments
\* are an unparsable string or missing ("bad_args"), or another function
ToolNames == {"web_search", "bad_args", "other"}
SessionIds == 1..MaxSessions
ProbeIds == 1..MaxProbes

\* position of a model name in localeCompare order
Ord(m) == IF m = "m1" THEN 1 ELSE 2

VARIABLES
    selectedModel,      \* let selectedModel
    collectedSources,   \* let collectedSources (urls of the entries, in order)
    toolSupportCache,   \* let toolSupportCache: model -> {value, timestamp}
    pendingToolChecks,  \* let pendingToolChecks: model -> probe (0: no entry)
    isFactChecking,     \* let isFactChecking
    abortController,    \* let abortController: session owning it (0: null)
    sessions,           \* the performFactCheck activations
    probes,             \* the checkPromise activations
    refresh,            \* position of refreshModels
    rcalls,             \* the checkModelToolSupport calls of refreshModels
    now,                \* Date.now()
    ticks,              \* number of clock advances so far
    unloaded,           \* the panel has been closed (cleanup has run)
    failedAt,           \* per model: the latest probe failed, and no probe has
                        \* been started since
    lastHandle,         \* outcome of the latest handleFactCheck invocation
    call,               \* a fetchWithRetry activation observed on its own
    obs                 \* the latest application of a function observed on
                        \* its own: its arguments and its result; or a
                        \* performFactCheck activation observed on its own
                        \* with its transcript

\* the state of the panel
panelVars == <<selectedModel, collectedSources, toolSupportCache,
               pendingToolChecks, isFactChecking, abortController, sessions,
               probes, refresh, rcalls, now, ticks, unloaded, failedAt,
               lastHandle>>

vars == <<selectedModel, collectedSources, toolSupportCache, pendingToolChecks,
          isFactChecking, abortController, sessions, probes, refresh, rcalls,
          now, ticks, unloaded, failedAt, lastHandle, call, obs>>

(***************************************************************************)
(* Values.                                                                 *)
(***************************************************************************)
SeqsUpTo(S, n) == UNION {[1..k -> S] : k \in 0..n}

ToolCallLists == SeqsUpTo(ToolNames, MaxToolCalls)
ResultLists == SeqsUpTo(URLS \cup {NoUrl}, MaxResults)

\* what the final-content extraction finds in a response:
\*   "content"    some strategy yields non-empty text
\*   "empty_done" no text, data.done === true
\*   "empty"      no text, no done flag
Bodies == {"content", "empty_done", "empty"}

\* a performFactCheck activation.  claim is its argument, status the status
\* of the latest /api/chat response (0: none yet, or the fetch was rejected),
\* lastTool the summary of the latest tool-result message ("results",
\* "empty", "failed"), abortedBy the caller of the first controller.abort()
\* ("timer": the request timer, "external": visibilitychange or cleanup)
NoSession ==
    [pc |-> "idle", aborted |-> FALSE, timeoutId |-> FALSE,
     modelSupportsTools |-> FALSE, iterationCount |-> 0, todo |-> <<>>,
     hasToolCalls |-> FALSE, searches |-> 0, chats |-> 0, probe |-> 0,
     outcome |-> "none", path |-> "none", entry |-> "none",
     claim |-> "", status |-> 0, lastTool |-> "none", abortedBy |-> "none"]

\* a fetchWithRetry activation: fetches are the outcomes of its attempts so
\* far, delays the backoff delays it has waited, result what it returned
\* (a response status) or threw (an error name), thrown the error it threw
NoResult == [status |-> 0, error |-> "none"]
NoError == [name |-> "none", message |-> "", code |-> 0]
NoCall == [st |-> "idle", attempt |-> 0, maxRetries |-> 0, fetches |-> <<>>,
           delays |-> <<>>, result |-> NoResult, thrown |-> NoError]
NoObs == [fn |-> "none"]

NoProbe == [model |-> NoModel, st |-> "unused", attempt |-> 0]
NoEntry == [has |-> FALSE, value |-> FALSE, timestamp |-> 0]
NoRCall == [st |-> "none", probe |-> 0, value |-> FALSE]

Range(f) == {f[i] : i \in DOMAIN f}


(***************************************************************************)
(* fetchWithRetry (src/content.js:434-488).  An attempt's outcome is a     *)
(* response (status # 0) or a thrown error (status = 0, err its message).  *)
(***************************************************************************)
Statuses == {200, 404, 429, 500, 503}
ErrorMessages == {"Failed to fetch", "other"}
FetchOutcomes ==
    {[status |-> s, err |-> ""] : s \in Statuses} \cup
    {[status |-> 0, err |-> e] : e \in ErrorMessages}

\* a fetch given an abort signal can also be rejected with an AbortError
AbortOutcome == [status |-> 0, err |-> "aborted"]

\* the error an attempt ends with: thrown by fetch, or `Server error: <status>`
\* thrown by fetchWithRetry itself for a 5xx response while attempts remain
ThrownError(o) ==
    IF o.status = 0
    THEN [name |-> IF o = AbortOutcome THEN "AbortError" ELSE "TypeError",
          message |-> o.err, code |-> 0]
    ELSE [name |-> "Error", message |-> "Server error", code |-> o.status]

\* isRetryableError: substring tests on error.message
isRetryableError(e) ==
    \/ e.message \in {"Failed to fetch", "NetworkError", "net::ERR_",
                      "ETIMEDOUT", "ECONNREFUSED"}
    \/ e.code \in {503, 429, 502, 504}

\* variant: client errors are thrown like server errors
ServerErrorFrom400(status) == status >= 400

\* response.status >= 500
ServerError(status) == status >= 500

\* what one loop iteration of fetchWithRetry does with an attempt's outcome:
\* "return" the response, "retry" after the backoff delay, or "throw"
\* variant: every failed attempt is retried while attempts remain
RetryDecisionAll(attempt, o, maxRetries) ==
    IF o.status # 0 /\ ~(ServerError(o.status) /\ attempt < maxRetries)
    THEN "return"
    ELSE IF attempt < maxRetries THEN "retry" ELSE "throw"

RetryDecision(attempt, o, maxRetries) ==
    IF o.status # 0 /\ ~(ServerError(o.status) /\ attempt < maxRetries)
    THEN "return"
    ELSE IF ThrownError(o).name = "AbortError" THEN "throw"
    ELSE IF attempt < maxRetries /\ isRetryableError(ThrownError(o))
         THEN "retry"
         ELSE "throw"

\* variant: the exponent is the attempt number
BackoffDelayLate(attempt) == RETRY_BASE_DELAY * 2 ^ attempt

\* const delay = CONFIG.RETRY_BASE_DELAY * Math.pow(2, attempt - 1)
BackoffDelay(attempt) == RETRY_BASE_DELAY * 2 ^ (attempt - 1)

\* the statuses and outcomes a fetchWithRetry call observed on its own meets
RetryStatuses == Statuses \cup {201, 400, 499, 502, 504, 599}
RetryOutcomes ==
    {[status |-> st, err |-> ""] : st \in RetryStatuses} \cup
    {[status |-> 0, err |-> e] : e \in ErrorMessages \cup {"NetworkError"}}
    \cup {AbortOutcome}

ResponseOk(o) == o.status >= 200 /\ o.status <= 299

(***************************************************************************)
(* checkModelToolSupport, synchronous part (src/content.js:608-623,        *)
(* 700-703): the calls made in one step for the distinct models of S.      *)
(***************************************************************************)
\* variant: an entry of age exactly TOOL_CACHE_DURATION still counts
CacheFreshInclusive(m) ==
    /\ toolSupportCache[m].has
    /\ toolSupportCache[m].timestamp # 0
    /\ now - toolSupportCache[m].timestamp <= TOOL_CACHE_DURATION

\* cached.timestamp && Date.now() - cached.timestamp < TOOL_CACHE_DURATION
CacheFresh(m) ==
    /\ toolSupportCache[m].has
    /\ toolSupportCache[m].timestamp # 0
    /\ now - toolSupportCache[m].timestamp < TOOL_CACHE_DURATION

\* what the cache holds for m when a call looks at it (recorded with the
\* session, not used by the code)
EntryAtCall(m) ==
    IF ~toolSupportCache[m].has THEN "absent"
    ELSE IF now - toolSupportCache[m].timestamp >= TOOL_CACHE_DURATION
         THEN "stale" ELSE "fresh"

\* variant: the pending map is not consulted
HasPendingCheckNever(m) == FALSE

\* pendingToolChecks.has(modelName)
HasPendingCheck(m) == pendingToolChecks[m] # 0

CallPath(m) ==
    IF CacheFresh(m) THEN "cached"
    ELSE IF HasPendingCheck(m) THEN "joined"
    ELSE "probe"

\* the probes started by the calls for S take the lowest free slots, in the
\* order of the calls
FreeSlots == {p \in ProbeIds : probes[p].st = "unused"}
NeedProbe(S) == {m \in S : CallPath(m) = "probe"}
NewProbeId(m, S) ==
    LET k == Cardinality({x \in NeedProbe(S) : Ord(x) <= Ord(m)})
    IN  CHOOSE p \in FreeSlots :
            Cardinality({q \in FreeSlots : q <= p}) = k
CanCall(S) == Cardinality(NeedProbe(S)) <= Cardinality(FreeSlots)

\* the promise the call returns: 0 for an immediate value, else the probe
CallProbe(m, S) ==
    CASE CallPath(m) = "cached" -> 0
      [] CallPath(m) = "joined" -> pendingToolChecks[m]
      [] OTHER -> NewProbeId(m, S)

CacheAfterCalls(S) ==
    [m \in Models |->
        IF m \in S /\ toolSupportCache[m].has /\ ~CacheFresh(m)
        THEN NoEntry ELSE toolSupportCache[m]]

PendingAfterCalls(S) ==
    [m \in Models |->
        IF m \in NeedProbe(S) THEN NewProbeId(m, S) ELSE pendingToolChecks[m]]

ProbesAfterCalls(S) ==
    [p \in ProbeIds |->
        IF \E m \in NeedProbe(S) : NewProbeId(m, S) = p
        THEN [model |-> CHOOSE m \in NeedProbe(S) : NewProbeId(m, S) = p,
              st |-> "fetching", attempt |-> 1]
        ELSE probes[p]]

FailedAfterCalls(S) ==
    [m \in Models |-> failedAt[m] /\ m \notin NeedProbe(S)]

(***************************************************************************)
(* refreshModels after Promise.all (src/content.js:524-568).               *)
(***************************************************************************)
RefreshDone(rc) == \A m \in Models : rc[m].st # "wait"

SelectedAfterRefresh(rc, sel) ==
    LET names == {m \in Models : rc[m].st # "none"}
        kept == IF sel # NoModel /\ sel \notin names THEN NoModel ELSE sel
        tool == {m \in names : rc[m].value}
    IN  IF kept = NoModel /\ tool # {}
        THEN CHOOSE m \in tool : \A x \in tool : Ord(m) <= Ord(x)
        ELSE kept


(***************************************************************************)
(* performFactCheck and processToolCalls as operators on a session record. *)
(***************************************************************************)
Ended(sr) == sr.pc \in {"done", "failed"}
Active(sr) == sr.pc \in {"probe", "chat", "search"}

\* the errors performFactCheck rethrows unchanged:
\*   "http_error"        Ollama error (<status>) / HTTP error! Status: <status>
\*   "fetch_error"       the /api/chat fetch was rejected (not by an abort)
\*   "parse_error"       response.json() threw
\*   "args_error"        JSON.parse of a tool call's arguments, or args.query
\*   "invalid_response"  Invalid response from AI model
ErrorOutcomes == {"http_error", "fetch_error", "parse_error", "args_error",
                  "invalid_response"}

\* variant: the catch block leaves the timer armed
FailKeepTimer(sr, kind) ==
    [sr EXCEPT !.pc = "failed", !.outcome = kind, !.todo = <<>>]

\* catch block (src/content.js:1391-1396): clearTimeout, then an AbortError
\* becomes the timeout error ("timeout"), any other error is rethrown
Fail(sr, kind) ==
    [sr EXCEPT !.pc = "failed", !.timeoutId = FALSE, !.outcome = kind,
               !.todo = <<>>]

\* fetch(`/api/chat`, {signal: controller.signal}): with an aborted signal the
\* fetch rejects with AbortError and no request is sent
SendChat(sr) ==
    IF sr.aborted THEN Fail(sr, "timeout")
    ELSE [sr EXCEPT !.pc = "chat", !.chats = @ + 1]

\* for (const toolCall of toolCalls): calls of another function are skipped
RECURSIVE DropSkipped(_)
DropSkipped(todo) ==
    IF todo = <<>> \/ Head(todo) # "other" THEN todo
    ELSE DropSkipped(Tail(todo))

\* variant: the arguments of a call are not looked at before its search
NextToolCallUnchecked(sr) ==
    LET rest == DropSkipped(sr.todo)
    IN  IF rest = <<>>
        THEN SendChat([sr EXCEPT !.todo = <<>>])
        ELSE [sr EXCEPT !.todo = rest, !.pc = "search", !.searches = @ + 1]

\* await performWebSearch(args.query) for the next web_search call (JSON.parse
\* or args.query throws when the arguments are unusable); when no call is
\* left, the continuation request of the loop body
NextToolCall(sr) ==
    LET rest == DropSkipped(sr.todo)
    IN  IF rest = <<>>
        THEN SendChat([sr EXCEPT !.todo = <<>>])
        ELSE IF Head(rest) = "bad_args"
        THEN Fail(sr, "args_error")
        ELSE [sr EXCEPT !.todo = rest, !.pc = "search", !.searches = @ + 1]

\* variant: the loop test admits one more iteration
LoopGuardInclusive(hasToolCalls, iterationCount) ==
    hasToolCalls /\ iterationCount <= MAX_SEARCH_ITERATIONS

\* while (data.message?.tool_calls && iterationCount < maxIterations)
LoopGuard(hasToolCalls, iterationCount) ==
    hasToolCalls /\ iterationCount < MAX_SEARCH_ITERATIONS

\* after the loop (src/content.js:1330-1390)
Finalize(sr, body) ==
    IF body = "empty" THEN Fail(sr, "invalid_response")
    ELSE [sr EXCEPT !.pc = "done", !.timeoutId = FALSE, !.todo = <<>>,
                    !.outcome = IF body = "content" THEN "result" ELSE "canned"]

\* the searchesPerformed field of the result object (src/content.js:1383)
searchesPerformed(sr) == sr.iterationCount

\* data = await response.json(), then the loop test
HandleChatData(sr, d) ==
    IF d.body = "unparsable" THEN Fail(sr, "parse_error")
    ELSE IF LoopGuard(d.hasToolCalls, sr.iterationCount)
    THEN NextToolCall([sr EXCEPT !.iterationCount = @ + 1,
                                 !.todo = d.tool_calls,
                                 !.hasToolCalls = TRUE])
    ELSE Finalize([sr EXCEPT !.hasToolCalls = d.hasToolCalls], d.body)

\* variant: every result with a url is pushed
MergeOneNoDedup(src, u) ==
    IF u # NoUrl THEN Append(src, u) ELSE src

\* collectedSources.push unless some entry has the url (or the url is empty)
MergeOne(src, u) ==
    IF u # NoUrl /\ u \notin Range(src) THEN Append(src, u) ELSE src

RECURSIVE Merge(_, _)
Merge(src, rs) ==
    IF rs = <<>> THEN src ELSE Merge(MergeOne(src, Head(rs)), Tail(rs))

\* the finally blocks of performFactCheck and handleFactCheck for the
\* sessions that end in this step
Commit(new) ==
    LET ends == {s \in SessionIds : ~Ended(sessions[s]) /\ Ended(new[s])}
    IN  /\ sessions' = new
        /\ isFactChecking' = IF ends # {} THEN FALSE ELSE isFactChecking
        /\ abortController' =
              IF abortController \in ends THEN 0 ELSE abortController

\* controller.abort(): an outstanding chat fetch rejects with AbortError
Abort(sr) ==
    LET a == [sr EXCEPT !.aborted = TRUE]
    IN  IF sr.pc = "chat" THEN Fail(a, "timeout") ELSE a

\* who calls controller.abort(): the timer callback (src/content.js:1165)
\* or a page event handler (src/content.js:274, 301); the signal keeps the
\* state of the first call
AbortBy(sr, who) ==
    Abort([sr EXCEPT !.abortedBy = IF sr.aborted THEN @ ELSE who])

\* performWebSearch's summary: the failure text of its catch, the text for
\* no results, or the formatted results
SummaryKind(ok, rs) ==
    IF ~ok THEN "failed" ELSE IF rs = <<>> THEN "empty" ELSE "results"

SearchSettledStrict(sr, ok, rs) ==
    LET t == [sr EXCEPT !.todo = Tail(@), !.lastTool = SummaryKind(ok, rs)]
    IN  IF ok THEN NextToolCall(t) ELSE Fail(t, "fetch_error")

\* processToolCalls after await performWebSearch (src/content.js:1009-1031):
\* the tool-result message with the summary is pushed whatever the search
\* returned, then the loop goes to the next tool call
SearchSettled(sr, ok, rs) ==
    NextToolCall([sr EXCEPT !.todo = Tail(@),
                            !.lastTool = SummaryKind(ok, rs)])


(***************************************************************************)
(* Initial state: the panel after DOMContentLoaded.                        *)
(***************************************************************************)
Init ==
    /\ selectedModel = NoModel
    /\ collectedSources = <<>>
    /\ toolSupportCache = [m \in Models |-> NoEntry]
    /\ pendingToolChecks = [m \in Models |-> 0]
    /\ isFactChecking = FALSE
    /\ abortController = 0
    /\ sessions = [s \in SessionIds |-> NoSession]
    /\ probes = [p \in ProbeIds |-> NoProbe]
    /\ refresh = "idle"
    /\ rcalls = [m \in Models |-> NoRCall]
    /\ now = 1
    /\ ticks = 0
    /\ unloaded = FALSE
    /\ failedAt = [m \in Models |-> FALSE]
    /\ lastHandle = "none"
    /\ call = NoCall
    /\ obs = NoObs

(***************************************************************************)
(* handleFactCheck (src/content.js:1055-1101) up to the first await on the *)
(* network, including the start of performFactCheck (1161-1171, 1252).     *)
(***************************************************************************)
\* variant: the claim is not tested
InvalidModelOnly(claim) == selectedModel = NoModel

\* if (!claim) ... return;  if (!selectedModel) ... return;
Invalid(claim) == claim = "" \/ selectedModel = NoModel

\* variant: the busy flag is not tested
BusyNever == FALSE

\* if (isFactChecking) return;   (the keyboard shortcut tests the disabled
\* button, which is disabled exactly while isFactChecking)
Busy == isFactChecking

HandleFactCheck(claim) ==
    /\ ~unloaded
    /\ UNCHANGED <<call, obs>>
    /\ IF Busy
       THEN /\ lastHandle' = "ignored"
            /\ UNCHANGED <<selectedModel, collectedSources, toolSupportCache,
                           pendingToolChecks, isFactChecking, abortController,
                           sessions, probes, refresh, rcalls, now, ticks,
                           unloaded, failedAt>>
       ELSE IF Invalid(claim)
       THEN /\ lastHandle' = "rejected"
            /\ UNCHANGED <<selectedModel, collectedSources, toolSupportCache,
                           pendingToolChecks, isFactChecking, abortController,
                           sessions, probes, refresh, rcalls, now, ticks,
                           unloaded, failedAt>>
       ELSE \E s \in SessionIds :
            LET S == {selectedModel}
                m == selectedModel
                sr0 == [NoSession EXCEPT !.pc = "probe", !.timeoutId = TRUE,
                                         !.claim = claim,
                                         !.probe = CallProbe(m, S),
                                         !.path = CallPath(m),
                                         !.entry = EntryAtCall(m)]
                sr == IF CallPath(m) = "cached"
                      THEN SendChat([sr0 EXCEPT !.modelSupportsTools =
                                                  toolSupportCache[m].value,
                                                !.probe = 0])
                      ELSE sr0
            IN  /\ ~Active(sessions[s])
                /\ \A t \in SessionIds : t < s => Active(sessions[t])
                /\ CanCall(S)
                /\ lastHandle' = "started"
                /\ isFactChecking' = TRUE
                /\ abortController' = s
                /\ collectedSources' = <<>>
                /\ sessions' = [sessions EXCEPT ![s] = sr]
                /\ toolSupportCache' = CacheAfterCalls(S)
                /\ pendingToolChecks' = PendingAfterCalls(S)
                /\ probes' = ProbesAfterCalls(S)
                /\ failedAt' = FailedAfterCalls(S)
                /\ UNCHANGED <<selectedModel, refresh, rcalls, now, ticks,
                               unloaded>>

(***************************************************************************)
(* The probe of checkModelToolSupport (src/content.js:623-700).            *)
(***************************************************************************)
\* Text is a sequence of words, standing for the words joined by single
\* spaces.  Lower is String.prototype.toLowerCase on the words used here.
Words == {"<TOOL_CALL>", "tools", "Function", "call", "FROM"}
ModelNames == Models \cup {"Qwen3:8b", "llama2"}

Lower(w) ==
    CASE w = "<TOOL_CALL>" -> "<tool_call>"
      [] w = "Function" -> "function"
      [] w = "FROM" -> "from"
      [] w = "Qwen3:8b" -> "qwen3:8b"
      [] OTHER -> w

toolTemplatePatterns ==
    {"<tool_call>", "<|tool_call|>", "<<tool_call>>", "<function_call>",
     "<tools>", "</tools>", "[tool_calls]", "<|python_tag|>", "{\"name\":",
     "\"function\"", "action:", "observation:"}

knownToolFamilies ==
    {"qwen", "qwen2", "qwen2.5", "qwen3", "llama3", "llama-3", "llama3.1",
     "llama3.2", "llama3.3", "mistral", "mistral-nemo", "mistral-small",
     "mistral-large", "mixtral", "command-r", "command-r-plus", "hermes",
     "nous-hermes", "functionary", "firefunction", "nexusraven", "gorilla",
     "deepseek"}

\* the strings among the patterns, the families and 'tool' that occur in the
\* lower-case word w (String.prototype.includes within one word)
PartsOf(w) ==
    CASE w = "<tool_call>" -> {"<tool_call>", "tool"}
      [] w = "tools" -> {"tool"}
      [] w = "qwen3:8b" -> {"qwen", "qwen3"}
      [] OTHER -> {}

LowerText(t) == [i \in 1..Len(t) |-> Lower(t[i])]

\* text.includes(part), part without a space
Includes(t, part) == \E i \in 1..Len(t) : part \in PartsOf(t[i])

\* text.includes('function call'): a word ending in 'function' followed by
\* a word starting with 'call'
IncludesFunctionCall(t) ==
    \E i \in 1..(Len(t) - 1) : t[i] = "function" /\ t[i + 1] = "call"

\* a field of the /api/show response: a string, absent (or falsy), or a
\* truthy value that is not a string
Absent == [kind |-> "absent", words |-> <<>>]
NotAString == [kind |-> "other", words |-> <<>>]
FieldValues ==
    {[kind |-> "string", words |-> t] : t \in SeqsUpTo(Words, MaxWords)}
    \cup {Absent, NotAString}

\* what response.json() yields: an object with the two fields, or nothing
\* usable (it throws, or yields null)
Malformed == [parsed |-> FALSE, template |-> Absent, modelfile |-> Absent]
ProbeData ==
    [parsed : {TRUE}, template : FieldValues, modelfile : FieldValues]
    \cup {Malformed}

\* (data.template || '').toLowerCase() and the like
FieldText(f) == IF f.kind = "string" THEN LowerText(f.words) ELSE <<>>

\* lines 636-684 throw: data is null, or toLowerCase is not a function
ProbeThrows(data) ==
    \/ ~data.parsed
    \/ data.template.kind = "other"
    \/ data.modelfile.kind = "other"

hasToolTemplate(data) ==
    \E pattern \in toolTemplatePatterns :
        Includes(FieldText(data.template), pattern)

hasToolModelfile(data) ==
    \/ Includes(FieldText(data.modelfile), "tool")
    \/ IncludesFunctionCall(FieldText(data.modelfile))

isKnownToolFamily(modelName) ==
    \E family \in knownToolFamilies : family \in PartsOf(Lower(modelName))

\* variant: every check has to succeed
hasToolSupportAll(modelName, data) ==
    hasToolTemplate(data) /\ hasToolModelfile(data)
        /\ isKnownToolFamily(modelName)

hasToolSupport(modelName, data) ==
    hasToolTemplate(data) \/ hasToolModelfile(data)
        \/ isKnownToolFamily(modelName)

\* the responses the model server gives to the probes of the panel
ProbeBodies ==
    {[parsed |-> TRUE, modelfile |-> Absent,
      template |-> [kind |-> "string", words |-> <<"<TOOL_CALL>">>]],
     [parsed |-> TRUE, modelfile |-> Absent, template |-> Absent],
     Malformed}

\* variant: a failed probe reports tool support
ProbeFailValueOpen == TRUE

\* the value cached and returned when the probe fails (catch, !response.ok)
ProbeFailValue == FALSE

\* the probe settles with value v: cache entry, pendingToolChecks.delete,
\* then every awaiting caller resumes
CompleteProbe(p, v, failed) ==
    LET m == probes[p].model
        rc == [x \in Models |->
                 IF rcalls[x].st = "wait" /\ rcalls[x].probe = p
                 THEN [st |-> "ret", probe |-> 0, value |-> v]
                 ELSE rcalls[x]]
        new == [s \in SessionIds |->
                 IF sessions[s].pc = "probe" /\ sessions[s].probe = p
                 THEN SendChat([sessions[s] EXCEPT !.modelSupportsTools = v,
                                                   !.probe = 0])
                 ELSE sessions[s]]
        finish == refresh = "checking" /\ RefreshDone(rc)
    IN  /\ probes' = [probes EXCEPT ![p] = NoProbe]
        /\ toolSupportCache' = [toolSupportCache EXCEPT
                 ![m] = [has |-> TRUE, value |-> v, timestamp |-> now]]
        /\ pendingToolChecks' = [pendingToolChecks EXCEPT ![m] = 0]
        /\ rcalls' = rc
        /\ refresh' = IF finish THEN "idle" ELSE refresh
        /\ selectedModel' = IF finish
                            THEN SelectedAfterRefresh(rc, selectedModel)
                            ELSE selectedModel
        /\ Commit(new)
        /\ failedAt' = [failedAt EXCEPT ![m] = failed]
        /\ UNCHANGED <<collectedSources, now, ticks, unloaded, lastHandle>>

\* an attempt of the probe's fetchWithRetry settles with outcome o; body is
\* what response.json() yields for an ok response
ProbeRespond(p, o, body) ==
    /\ ~unloaded
    /\ UNCHANGED <<call, obs>>
    /\ probes[p].st = "fetching"
    /\ LET d == RetryDecision(probes[p].attempt, o, MAX_RETRIES)
       IN  IF d = "retry"
           THEN /\ probes' = [probes EXCEPT ![p].st = "delay"]
                /\ UNCHANGED <<selectedModel, collectedSources,
                               toolSupportCache, pendingToolChecks,
                               isFactChecking, abortController, sessions,
                               refresh, rcalls, now, ticks, unloaded,
                               failedAt, lastHandle>>
           ELSE IF d = "return" /\ ResponseOk(o) /\ ~ProbeThrows(body)
           THEN CompleteProbe(p, hasToolSupport(probes[p].model, body), FALSE)
           ELSE CompleteProbe(p, ProbeFailValue, TRUE)

\* the backoff delay of fetchWithRetry has elapsed: next attempt
ProbeDelayElapsed(p) ==
    /\ ~unloaded
    /\ UNCHANGED <<call, obs>>
    /\ probes[p].st = "delay"
    /\ probes' = [probes EXCEPT ![p].st = "fetching", ![p].attempt = @ + 1]
    /\ UNCHANGED <<selectedModel, collectedSources, toolSupportCache,
                   pendingToolChecks, isFactChecking, abortController,
                   sessions, refresh, rcalls, now, ticks, unloaded,
                   failedAt, lastHandle>>


(***************************************************************************)
(* The tool-calling loop of performFactCheck (src/content.js:1252-1403).   *)
(***************************************************************************)
ChatResponses ==
    {[hasToolCalls |-> FALSE, tool_calls |-> <<>>, body |-> b] : b \in Bodies}
    \cup
    {[hasToolCalls |-> TRUE, tool_calls |-> tc, body |-> b] :
        tc \in ToolCallLists, b \in Bodies}

\* a response body that response.json() cannot parse
Unparsable == [hasToolCalls |-> FALSE, tool_calls |-> <<>>, body |-> "unparsable"]

OkResponse == [status |-> 200, err |-> ""]

\* the bodies that can come with outcome o: any for an ok response, else the
\* body is not read as data
ChatInputs(o) ==
    IF ResponseOk(o) THEN ChatResponses \cup {Unparsable} ELSE {Unparsable}

\* variant: response.ok is not tested
ChatSettledLenient(sr, o, d) ==
    LET r == [sr EXCEPT !.status = o.status]
    IN  IF o.status = 0 THEN Fail(r, "fetch_error")
        ELSE HandleChatData(r, d)

\* the outstanding /api/chat fetch (a plain fetch, one attempt) settles with
\* outcome o: rejected, a response that is not ok, or an ok response with
\* body d
ChatSettled(sr, o, d) ==
    LET r == [sr EXCEPT !.status = o.status]
    IN  IF o.status = 0 THEN Fail(r, "fetch_error")
        ELSE IF ~ResponseOk(o) THEN Fail(r, "http_error")
        ELSE HandleChatData(r, d)

ChatRespond(s, o, d) ==
    /\ ~unloaded
    /\ UNCHANGED <<call, obs>>
    /\ sessions[s].pc = "chat"
    /\ Commit([sessions EXCEPT ![s] = ChatSettled(@, o, d)])
    /\ UNCHANGED <<selectedModel, collectedSources, toolSupportCache,
                   pendingToolChecks, probes, refresh, rcalls, now, ticks,
                   unloaded, failedAt, lastHandle>>

\* the outstanding performWebSearch settles (it never throws): its results
\* are merged into collectedSources, the tool message is built, and the loop
\* over the tool calls goes on
SearchRespond(s, ok, rs) ==
    /\ ~unloaded
    /\ UNCHANGED <<call, obs>>
    /\ sessions[s].pc = "search"
    /\ collectedSources' = IF ok THEN Merge(collectedSources, rs)
                           ELSE collectedSources
    /\ Commit([sessions EXCEPT ![s] = SearchSettled(@, ok, rs)])
    /\ UNCHANGED <<selectedModel, toolSupportCache, pendingToolChecks, probes,
                   refresh, rcalls, now, ticks, unloaded, failedAt,
                   lastHandle>>

\* setTimeout(() => controller.abort(), CONFIG.REQUEST_TIMEOUT) fires
TimeoutFire(s) ==
    /\ ~unloaded
    /\ UNCHANGED <<call, obs>>
    /\ sessions[s].timeoutId
    /\ Commit([sessions EXCEPT
                 ![s] = AbortBy([@ EXCEPT !.timeoutId = FALSE], "timer")])
    /\ UNCHANGED <<selectedModel, collectedSources, toolSupportCache,
                   pendingToolChecks, probes, refresh, rcalls, now, ticks,
                   unloaded, failedAt, lastHandle>>

\* visibilitychange to hidden (src/content.js:297-304)
Hide ==
    /\ ~unloaded
    /\ UNCHANGED <<call, obs>>
    /\ abortController # 0
    /\ Commit([sessions EXCEPT ![abortController] = AbortBy(@, "external")])
    /\ UNCHANGED <<selectedModel, collectedSources, toolSupportCache,
                   pendingToolChecks, probes, refresh, rcalls, now, ticks,
                   unloaded, failedAt, lastHandle>>

\* cleanup on beforeunload (src/content.js:271-296): the side panel closes;
\* the document is discarded afterwards and nothing of it runs any more
Cleanup ==
    /\ ~unloaded
    /\ UNCHANGED <<call, obs>>
    /\ unloaded' = TRUE
    /\ LET new == IF abortController # 0
                  THEN [sessions EXCEPT
                           ![abortController] = AbortBy(@, "external")]
                  ELSE sessions
           ends == {s \in SessionIds : ~Ended(sessions[s]) /\ Ended(new[s])}
       IN  /\ sessions' = new
           /\ isFactChecking' = IF ends # {} THEN FALSE ELSE isFactChecking
    /\ abortController' = 0
    /\ toolSupportCache' = [m \in Models |-> NoEntry]
    /\ pendingToolChecks' = [m \in Models |-> 0]
    /\ UNCHANGED <<selectedModel, collectedSources, probes, refresh, rcalls,
                   now, ticks, failedAt, lastHandle>>

(***************************************************************************)
(* Environment: the clock, the model selector, refreshModels.              *)
(***************************************************************************)
Tick(d) ==
    /\ ~unloaded
    /\ UNCHANGED <<call, obs>>
    /\ ticks < MaxTicks
    /\ ticks' = ticks + 1
    /\ now' = now + d
    /\ UNCHANGED <<selectedModel, collectedSources, toolSupportCache,
                   pendingToolChecks, isFactChecking, abortController,
                   sessions, probes, refresh, rcalls, unloaded,
                   failedAt, lastHandle>>

\* handleModelSelection -> saveSelectedModel (src/content.js:375-421)
SelectModel(m) ==
    /\ ~unloaded
    /\ UNCHANGED <<call, obs>>
    /\ selectedModel # m
    /\ selectedModel' = m
    /\ UNCHANGED <<collectedSources, toolSupportCache, pendingToolChecks,
                   isFactChecking, abortController, sessions, probes, refresh,
                   rcalls, now, ticks, unloaded, failedAt,
                   lastHandle>>

\* refreshModels up to the /api/tags request (src/content.js:492-498); the
\* Refresh button is disabled while a refresh runs
RefreshStart ==
    /\ ~unloaded
    /\ UNCHANGED <<call, obs>>
    /\ refresh = "idle"
    /\ refresh' = "tags"
    /\ rcalls' = [m \in Models |-> NoRCall]
    /\ UNCHANGED <<selectedModel, collectedSources, toolSupportCache,
                   pendingToolChecks, isFactChecking, abortController,
                   sessions, probes, now, ticks, unloaded,
                   failedAt, lastHandle>>

\* the /api/tags request settles: it failed, or it lists the models of S and
\* checkModelToolSupport is called for each of them (src/content.js:499-522)
TagsRespond(ok, S) ==
    /\ ~unloaded
    /\ UNCHANGED <<call, obs>>
    /\ refresh = "tags"
    /\ IF ~ok \/ S = {}
       THEN /\ refresh' = "idle"
            /\ UNCHANGED <<selectedModel, toolSupportCache, pendingToolChecks,
                           probes, rcalls, failedAt>>
       ELSE LET rc == [m \in Models |->
                        IF m \in S
                        THEN [st |-> IF CallPath(m) = "cached" THEN "ret"
                                     ELSE "wait",
                              probe |-> CallProbe(m, S),
                              value |-> CallPath(m) = "cached"
                                        /\ toolSupportCache[m].value]
                        ELSE NoRCall]
            IN  /\ CanCall(S)
                /\ rcalls' = rc
                /\ refresh' = IF RefreshDone(rc) THEN "idle" ELSE "checking"
                /\ selectedModel' =
                      IF RefreshDone(rc)
                      THEN SelectedAfterRefresh(rc, selectedModel)
                      ELSE selectedModel
                /\ toolSupportCache' = CacheAfterCalls(S)
                /\ pendingToolChecks' = PendingAfterCalls(S)
                /\ probes' = ProbesAfterCalls(S)
                /\ failedAt' = FailedAfterCalls(S)
    /\ UNCHANGED <<collectedSources, isFactChecking, abortController,
                   sessions, now, ticks, unloaded, lastHandle>>

(***************************************************************************)
(* fetchWithRetry observed on its own (src/content.js:454-488): one call   *)
(* at a time, with any maxRetries argument and any outcome of each         *)
(* attempt.                                                                *)
(***************************************************************************)
\* the call is made: the first attempt is dispatched
FetchWithRetryCall(maxRetries) ==
    /\ call.st \in {"idle", "returned", "thrown"}
    /\ call' = [NoCall EXCEPT !.st = "fetching", !.attempt = 1,
                              !.maxRetries = maxRetries]
    /\ UNCHANGED <<panelVars, obs>>

\* variant: the error of the first attempt is thrown
ThrownByCallFirst(fetches) == ThrownError(fetches[1])

\* throw error: the error caught in the iteration that ends the call, which
\* is that of the latest attempt
ThrownByCall(fetches) == ThrownError(fetches[Len(fetches)])

\* the attempt settles with outcome o
CallSettle(o) ==
    /\ call.st = "fetching"
    /\ LET d == RetryDecision(call.attempt, o, call.maxRetries)
           c == [call EXCEPT !.fetches = Append(@, o)]
       IN  call' =
             CASE d = "return" ->
                    [c EXCEPT !.st = "returned",
                              !.result = [status |-> o.status, error |-> "none"]]
               [] d = "retry" -> [c EXCEPT !.st = "delay"]
               [] OTHER ->
                    [c EXCEPT !.st = "thrown",
                              !.thrown = ThrownByCall(c.fetches),
                              !.result = [status |-> 0,
                                          error |-> ThrownError(o).name]]
    /\ UNCHANGED <<panelVars, obs>>

\* setTimeout(resolve, delay) fires; continue: the next attempt is dispatched
CallDelayElapsed ==
    /\ call.st = "delay"
    /\ call' = [call EXCEPT !.st = "fetching", !.attempt = @ + 1,
                            !.delays = Append(@, BackoffDelay(call.attempt))]
    /\ UNCHANGED <<panelVars, obs>>

RetryNext ==
    \/ \E n \in 1..MaxRetriesArg : FetchWithRetryCall(n)
    \/ \E o \in RetryOutcomes : CallSettle(o)
    \/ CallDelayElapsed

RetrySpec == Init /\ [][RetryNext]_vars

(***************************************************************************)
(* The probe of checkModelToolSupport observed on its own                  *)
(* (src/content.js:623-700): one probe for any model name, any final       *)
(* outcome of its fetchWithRetry and any response body.                    *)
(***************************************************************************)
\* the bodies that can come with outcome o: only an ok response is read
ProbeInputs(o) == IF ResponseOk(o) THEN ProbeData ELSE {Malformed}

\* the value the probe caches and returns
ProbeValue(modelName, o, data) ==
    IF ResponseOk(o) /\ ~ProbeThrows(data)
    THEN hasToolSupport(modelName, data)
    ELSE ProbeFailValue

\* one probe, for some model name, outcome and body
ProbeApply ==
    /\ obs = NoObs
    /\ \E modelName \in ModelNames, o \in FetchOutcomes :
          \E data \in ProbeInputs(o) :
             obs' = [fn |-> "checkModelToolSupport", modelName |-> modelName,
                     o |-> o, data |-> data,
                     value |-> ProbeValue(modelName, o, data)]
    /\ UNCHANGED <<panelVars, call>>

ProbeNext == ProbeApply

ProbeSpec == Init /\ [][ProbeNext]_vars

(***************************************************************************)
(* Specifications.                                                         *)
(*   Spec       one panel, its fact-check sessions with the probes they    *)
(*              start, cancellation and close; the user selects one model  *)
(*              and the clock stands still                                 *)
(*   CacheSpec  the tool-support cache: the clock advances, refreshModels  *)
(*              calls checkModelToolSupport next to the sessions; the      *)
(*              model server answers every chat request with a final text  *)
(*   RetrySpec  calls of fetchWithRetry, one after another                 *)
(*   ProbeSpec  one capability probe                                       *)
(*   TranscriptSpec  one performFactCheck activation with the request      *)
(*              bodies it sends and its messages array (defined below)     *)
(*   ExtractSpec, TierSpec, SearchSpec, ParseSpec, VerdictSpec,            *)
(*   SourcesSpec                                                           *)
(*              one application each of the final text extraction, of      *)
(*              getSourceTier, of performWebSearch, of parseSearchResults  *)
(*              and of the verdict and source parts of displayResults      *)
(*              (defined with them below)                                  *)
(***************************************************************************)
Next ==
    \/ \E c \in Claims : HandleFactCheck(c)
    \/ \E p \in ProbeIds, o \in FetchOutcomes, b \in ProbeBodies :
          ProbeRespond(p, o, b)
    \/ \E p \in ProbeIds : ProbeDelayElapsed(p)
    \/ \E s \in SessionIds, o \in FetchOutcomes :
          \E d \in ChatInputs(o) : ChatRespond(s, o, d)
    \/ \E s \in SessionIds, ok \in BOOLEAN, rs \in ResultLists :
          SearchRespond(s, ok, rs)
    \/ \E s \in SessionIds : TimeoutFire(s)
    \/ Hide
    \/ Cleanup
    \/ SelectModel("m1")

Spec == Init /\ [][Next]_vars

FinalText == [hasToolCalls |-> FALSE, tool_calls |-> <<>>, body |-> "content"]

CacheNext ==
    \/ HandleFactCheck("claim")
    \/ \E p \in ProbeIds, o \in FetchOutcomes, b \in ProbeBodies :
          ProbeRespond(p, o, b)
    \/ \E p \in ProbeIds : ProbeDelayElapsed(p)
    \/ \E s \in SessionIds : ChatRespond(s, OkResponse, FinalText)
    \/ Cleanup
    \/ \E d \in {1, TOOL_CACHE_DURATION - 1} : Tick(d)
    \/ \E m \in Models : SelectModel(m)
    \/ RefreshStart
    \/ \E ok \in BOOLEAN, S \in SUBSET Models : TagsRespond(ok, S)

CacheSpec == Init /\ [][CacheNext]_vars

(***************************************************************************)
(* Properties of the sessions.                                             *)
(***************************************************************************)
ActiveSessions == {s \in SessionIds : Active(sessions[s])}

\* C1: in one session the number of web searches dispatched (calls of
\* performWebSearch) never exceeds MAX_SEARCH_ITERATIONS.
C1_SearchDispatchCap ==
    \A s \in SessionIds : sessions[s].searches <= MAX_SEARCH_ITERATIONS

\* the probe a session waits for makes a further metadata fetch in this step
ProbeRefetched(s) ==
    /\ sessions[s].pc = "probe"
    /\ probes'[sessions[s].probe].attempt > probes[sessions[s].probe].attempt

\* C2: once the controller of a session has been aborted, the session
\* dispatches no further network request: no chat request, no metadata
\* request of its capability probe, no web search.
C2_NoDispatchAfterAbort ==
    [][\A s \in SessionIds :
          (Active(sessions[s]) /\ sessions[s].aborted) =>
              /\ sessions'[s].chats = sessions[s].chats
              /\ sessions'[s].searches = sessions[s].searches
              /\ ~ProbeRefetched(s)]_vars

\* C3: an abort reaches the outstanding network call of the session (probe,
\* chat request or web search) and the session fails at once: no session is
\* aborted and still waiting.
C3_AbortFailsAtOnce ==
    \A s \in SessionIds : sessions[s].aborted => sessions[s].pc = "failed"

\* a session is started in this step
Starts(s) == ~Active(sessions[s]) /\ Active(sessions'[s])

C6_OneSession ==
    /\ Cardinality(ActiveSessions) <= 1
    /\ Cardinality({s \in SessionIds : sessions[s].pc = "chat"}) <= 1
    /\ ActiveSessions # {} => isFactChecking

C6_Ignored ==
    (isFactChecking /\ (lastHandle' # lastHandle \/ \E s \in SessionIds : Starts(s)))
        => /\ lastHandle' = "ignored"
           /\ UNCHANGED <<sessions, probes, collectedSources, abortController,
                          isFactChecking, toolSupportCache, pendingToolChecks>>

\* C6: at most one session is active and at most one chat request is in
\* flight at any time; a handleFactCheck invoked while a session is in
\* progress starts no session, sends no request and changes nothing of the
\* running session.
C6_SingleActiveSession == [](C6_OneSession) /\ [][C6_Ignored]_vars

C6_Witness ==
    /\ lastHandle = "ignored"
    /\ isFactChecking
    /\ \E s \in SessionIds : sessions[s].pc = "chat" /\ sessions[s].chats = 2

\* C7: collectedSources never holds two entries with the same url.
C7_SourcesDistinct ==
    \A i, j \in 1..Len(collectedSources) :
        i # j => collectedSources[i] # collectedSources[j]

\* two searches of the session have delivered, all urls are collected once
C7_Witness ==
    /\ Len(collectedSources) = Cardinality(URLS)
    /\ \E s \in SessionIds : sessions[s].searches >= 3

\* the attempts made so far for the chat request the session is at
ChatAttempts(sr) == sr.chats - sr.iterationCount

\* C16: a chat request that fails transiently (here: answered with status
\* 503) makes the session fail only after the request has been attempted
\* MAX_RETRIES times.
C16_ChatRetried ==
    \A s \in SessionIds :
        (sessions[s].pc = "failed" /\ sessions[s].outcome = "http_error"
            /\ sessions[s].status = 503)
        => ChatAttempts(sessions[s]) = MAX_RETRIES

NonSuccess(status) == status # 0 /\ ~(status >= 200 /\ status <= 299)

C17_Failed ==
    \A s \in SessionIds :
        NonSuccess(sessions[s].status) =>
            /\ sessions[s].pc = "failed"
            /\ sessions[s].outcome = "http_error"

C17_NothingMore ==
    \A s \in SessionIds :
        /\ (sessions[s].pc = "chat" /\ NonSuccess(sessions'[s].status)) =>
              /\ sessions'[s].chats = sessions[s].chats
              /\ sessions'[s].searches = sessions[s].searches
        /\ (sessions[s].pc = "failed" /\ NonSuccess(sessions[s].status)
              /\ ~Starts(s)) =>
              sessions'[s] = sessions[s]

\* C17: a chat response (initial or continuation) with a non-success status
\* makes the session fail with an error, without a result, and the session
\* dispatches no further chat request or search.
C17_NonSuccessFatal == [](C17_Failed) /\ [][C17_NothingMore]_vars

\* a continuation request was answered with status 500
C17_Witness ==
    \E s \in SessionIds :
        /\ sessions[s].pc = "failed"
        /\ sessions[s].status = 500
        /\ sessions[s].iterationCount = 1
        /\ sessions[s].searches >= 1

C18_ClaimGiven ==
    \A s \in SessionIds : sessions[s].pc # "idle" => sessions[s].claim # ""

C18_Started ==
    \A s \in SessionIds :
        Starts(s) => (sessions'[s].claim # "" /\ selectedModel # NoModel)

C18_Untouched ==
    (lastHandle' = "rejected" /\ lastHandle # "rejected") =>
        UNCHANGED <<selectedModel, collectedSources, toolSupportCache,
                    pendingToolChecks, isFactChecking, abortController,
                    sessions, probes, refresh, rcalls>>

\* C18: a request with an empty claim or with no model selected starts no
\* session and dispatches nothing; the busy flag, the abort controller and
\* the collected sources stay as they are.
C18_Rejected ==
    /\ [](C18_ClaimGiven)
    /\ [][C18_Started /\ C18_Untouched]_vars

\* an empty claim was rejected after a session had collected sources
C18_Witness ==
    /\ lastHandle = "rejected"
    /\ selectedModel # NoModel
    /\ collectedSources # <<>>
    /\ \E s \in SessionIds : sessions[s].pc = "done"

C19_Cleared ==
    \A s \in SessionIds : Ended(sessions[s]) => ~sessions[s].timeoutId

C19_NoLateAbort ==
    \A s \in SessionIds :
        (Ended(sessions[s]) /\ ~Starts(s)) =>
            sessions'[s].aborted = sessions[s].aborted

\* C19: when performFactCheck has exited, with a result or with an error,
\* its timeout timer is cleared, and no timer aborts the session later.
C19_TimerCleared == [](C19_Cleared) /\ [][C19_NoLateAbort]_vars

\* a session failed on its own, not by an abort
C19_Witness ==
    \E s \in SessionIds :
        /\ sessions[s].pc = "failed"
        /\ sessions[s].outcome = "args_error"
        /\ ~sessions[s].aborted

\* C20: the searchesPerformed field of a returned result equals the number
\* of web searches the session dispatched.
C20_SearchesPerformed ==
    \A s \in SessionIds :
        sessions[s].pc = "done" =>
            searchesPerformed(sessions[s]) = sessions[s].searches

(***************************************************************************)
(* Specifications with fairness.                                           *)
(*   FairSpec  the timers of the event loop fire: the session timeout and  *)
(*             the backoff delay.  No server is assumed to answer.         *)
(*   LiveSpec  every awaited call completes: each outstanding request is   *)
(*             answered and each backoff delay elapses.                    *)
(***************************************************************************)
FairSpec ==
    /\ Spec
    /\ WF_vars(\E s \in SessionIds : TimeoutFire(s))
    /\ WF_vars(\E p \in ProbeIds : ProbeDelayElapsed(p))

LiveSpec ==
    /\ Spec
    /\ WF_vars(\E p \in ProbeIds, o \in FetchOutcomes, b \in ProbeBodies :
                  ProbeRespond(p, o, b))
    /\ WF_vars(\E p \in ProbeIds : ProbeDelayElapsed(p))
    /\ WF_vars(\E s \in SessionIds, o \in FetchOutcomes :
                  \E d \in ChatInputs(o) : ChatRespond(s, o, d))
    /\ WF_vars(\E s \in SessionIds, ok \in BOOLEAN, rs \in ResultLists :
                  SearchRespond(s, ok, rs))

\* C4: a session waiting for the model server (metadata request of the
\* probe, initial or continuation chat request) does not wait forever: if
\* no answer comes, the timeout ends the wait and the session fails.
C4_TimeoutEndsWait ==
    \A s \in SessionIds :
        (sessions[s].pc \in {"probe", "chat"})
            ~> (sessions[s].pc \notin {"probe", "chat"} \/ unloaded)

C8_Bounded ==
    \A s \in SessionIds :
        /\ sessions[s].iterationCount <= MAX_SEARCH_ITERATIONS
        /\ sessions[s].chats <= MAX_SEARCH_ITERATIONS + 1

\* at the cap, whatever the awaited response carries, nothing more is sent
C8_CapStops ==
    \A s \in SessionIds :
        (sessions[s].pc = "chat"
            /\ sessions[s].iterationCount = MAX_SEARCH_ITERATIONS)
        => /\ sessions'[s] = sessions[s] \/ Ended(sessions'[s])
           /\ sessions'[s].chats = sessions[s].chats
           /\ sessions'[s].searches = sessions[s].searches
           /\ sessions'[s].iterationCount = sessions[s].iterationCount

C8_Terminates ==
    (ActiveSessions # {}) ~> (ActiveSessions = {} \/ unloaded)

\* C8: iterationCount never exceeds MAX_SEARCH_ITERATIONS; at the cap a
\* response that still requests tools leads to no further request, so a
\* session sends at most MAX_SEARCH_ITERATIONS + 1 chat requests; and a
\* session whose awaited calls all complete terminates.
C8_LoopBounded == [](C8_Bounded) /\ [][C8_CapStops]_vars /\ C8_Terminates

C8_Witness ==
    \E s \in SessionIds :
        /\ sessions[s].pc = "done"
        /\ sessions[s].iterationCount = MAX_SEARCH_ITERATIONS
        /\ sessions[s].hasToolCalls
        /\ sessions[s].chats = MAX_SEARCH_ITERATIONS + 1

(***************************************************************************)
(* Properties of the tool-support cache.                                   *)
(***************************************************************************)
ProbesInFlight(m) ==
    {p \in ProbeIds : probes[p].st # "unused" /\ probes[p].model = m}

\* the probes awaited by the callers of checkModelToolSupport(m) that have
\* not returned yet: sessions and the calls of refreshModels
AwaitedBySessions(m) ==
    {sessions[s].probe : s \in {t \in SessionIds :
        sessions[t].pc = "probe" /\ probes[sessions[t].probe].model = m}}
AwaitedByRefresh(m) ==
    IF rcalls[m].st = "wait" THEN {rcalls[m].probe} ELSE {}
WaitingSessions(m) ==
    {s \in SessionIds :
        sessions[s].pc = "probe" /\ probes[sessions[s].probe].model = m}
NumWaiting(m) ==
    Cardinality(WaitingSessions(m)) + Cardinality(AwaitedByRefresh(m))

\* C5 as stated: concurrent callers for one model share exactly one probe,
\* and that probe has made exactly one metadata fetch.
C5_OneProbeOneFetch ==
    \A m \in Models :
        /\ Cardinality(ProbesInFlight(m)) <= 1
        /\ NumWaiting(m) >= 2 =>
              /\ Cardinality(ProbesInFlight(m)) = 1
              /\ AwaitedBySessions(m) \cup AwaitedByRefresh(m)
                    = ProbesInFlight(m)
              /\ \A p \in ProbesInFlight(m) : probes[p].attempt = 1

C5_OneProbe ==
    \A m \in Models :
        /\ Cardinality(ProbesInFlight(m)) <= 1
        /\ NumWaiting(m) >= 1 =>
              /\ Cardinality(ProbesInFlight(m)) = 1
              /\ AwaitedBySessions(m) \cup AwaitedByRefresh(m)
                    = ProbesInFlight(m)
              /\ \A p \in ProbesInFlight(m) :
                    probes[p].attempt \in 1..MAX_RETRIES

\* when a caller waiting for m returns, every caller waiting for m returns
\* in the same step with the same boolean
C5_SameBoolean ==
    \A m \in Models : \A s \in WaitingSessions(m) :
        sessions'[s].pc # "probe" =>
            /\ \A t \in WaitingSessions(m) :
                  /\ sessions'[t].pc # "probe"
                  /\ sessions'[t].modelSupportsTools
                        = sessions'[s].modelSupportsTools
            /\ rcalls[m].st = "wait" =>
                  /\ rcalls'[m].st = "ret"
                  /\ rcalls'[m].value = sessions'[s].modelSupportsTools

\* C5 (amended): concurrent calls for one model share one probe, that is one
\* fetchWithRetry call making between 1 and MAX_RETRIES metadata fetches; at
\* most one probe per model is in flight and all callers get the same value.
C5_ProbeShared == [](C5_OneProbe) /\ [][C5_SameBoolean]_vars

\* a session and refreshModels wait for the same model while its probe is
\* at its second metadata fetch
C5_Witness ==
    \E m \in Models :
        /\ NumWaiting(m) = 2
        /\ \A p \in ProbesInFlight(m) :
              probes[p].attempt = 2 /\ probes[p].st = "fetching"
        /\ ProbesInFlight(m) # {}

\* an entry for m exists and now - checkedAt < TTL
FreshEntry(m) ==
    /\ toolSupportCache[m].has
    /\ now - toolSupportCache[m].timestamp < TOOL_CACHE_DURATION

\* refreshModels calls checkModelToolSupport(m) in this step
RefreshCalls(m) ==
    refresh = "tags" /\ refresh' # "tags" /\ rcalls'[m].st # "none"

\* the call made in this step for m started a probe: a slot that was free
\* now holds the first metadata fetch for m, and the stale entry is gone
StartsProbe(m, p) ==
    /\ p \in ProbeIds
    /\ probes[p].st = "unused"
    /\ probes'[p] = [model |-> m, st |-> "fetching", attempt |-> 1]
    /\ ~toolSupportCache'[m].has

\* no metadata fetch is dispatched for m in this step
NoFetchFor(m) ==
    \A p \in ProbeIds :
        probes'[p].model = m =>
            /\ probes[p].model = m
            /\ probes'[p].attempt = probes[p].attempt

C9_SessionCall ==
    \A s \in SessionIds :
        Starts(s) =>
            LET m == selectedModel
            IN  IF FreshEntry(m)
                THEN /\ sessions'[s].pc = "chat"
                     /\ sessions'[s].modelSupportsTools
                           = toolSupportCache[m].value
                     /\ NoFetchFor(m)
                ELSE /\ sessions'[s].pc = "probe"
                     /\ toolSupportCache[m].has
                           => StartsProbe(m, sessions'[s].probe)

C9_RefreshCall ==
    \A m \in Models :
        RefreshCalls(m) =>
            IF FreshEntry(m)
            THEN /\ rcalls'[m].st = "ret"
                 /\ rcalls'[m].value = toolSupportCache[m].value
                 /\ NoFetchFor(m)
            ELSE /\ rcalls'[m].st = "wait"
                 /\ toolSupportCache[m].has => StartsProbe(m, rcalls'[m].probe)

C9_Recorded ==
    \A s \in SessionIds :
        /\ sessions[s].path = "cached" <=> sessions[s].entry = "fresh"
        /\ sessions[s].entry = "stale" => sessions[s].path = "probe"

\* C9: a call returns the cached value without a network request exactly
\* when an entry for the model exists with now - checkedAt < TTL; an entry
\* of age >= TTL is never returned, a fresh probe is started instead.
C9_CacheExpiry ==
    [](C9_Recorded) /\ [][C9_SessionCall /\ C9_RefreshCall]_vars

\* a session found an entry of age >= TTL and waits for the new probe
C9_Witness ==
    \E s \in SessionIds :
        /\ sessions[s].entry = "stale"
        /\ sessions[s].pc = "probe"
        /\ probes[sessions[s].probe].st = "fetching"

C10_Cached ==
    \A m \in Models :
        (failedAt[m] /\ ~unloaded) =>
            toolSupportCache[m].has /\ ~toolSupportCache[m].value

\* the probe p settles in this step because its metadata fetch failed
FailsNow(p) ==
    /\ probes[p].st = "fetching"
    /\ probes'[p].st = "unused"
    /\ failedAt'[probes[p].model]

C10_ReturnsFalse ==
    \A p \in ProbeIds :
        FailsNow(p) =>
            LET m == probes[p].model
            IN  /\ toolSupportCache'[m]
                      = [has |-> TRUE, value |-> FALSE, timestamp |-> now]
                /\ \A s \in SessionIds :
                      (sessions[s].pc = "probe" /\ sessions[s].probe = p) =>
                          /\ ~sessions'[s].modelSupportsTools
                          /\ sessions'[s].outcome \notin ErrorOutcomes
                          /\ sessions'[s].pc \in {"chat", "failed"}
                /\ (rcalls[m].st = "wait" /\ rcalls[m].probe = p) =>
                      (rcalls'[m].st = "ret" /\ ~rcalls'[m].value)

C10_LaterCalls ==
    \A m \in Models :
        (failedAt[m]
            /\ now - toolSupportCache[m].timestamp < TOOL_CACHE_DURATION) =>
           /\ \A s \in SessionIds :
                 (Starts(s) /\ selectedModel = m) =>
                     /\ sessions'[s].pc = "chat"
                     /\ ~sessions'[s].modelSupportsTools
                     /\ NoFetchFor(m)
           /\ RefreshCalls(m) =>
                 /\ rcalls'[m].st = "ret"
                 /\ ~rcalls'[m].value
                 /\ NoFetchFor(m)

\* C10: a probe whose metadata fetch fails returns false without an error,
\* the cache then holds false for the model, and every further call for the
\* model within the TTL returns false without a network request.
C10_FailClosed ==
    [](C10_Cached) /\ [][C10_ReturnsFalse /\ C10_LaterCalls]_vars

\* after a failed probe and a clock advance a session got false from the
\* cache and has sent its chat request
C10_Witness ==
    /\ selectedModel # NoModel
    /\ failedAt[selectedModel]
    /\ ticks >= 1
    /\ \E s \in SessionIds :
          /\ sessions[s].pc = "chat"
          /\ sessions[s].path = "cached"
          /\ ~sessions[s].modelSupportsTools

(***************************************************************************)
(* Properties of fetchWithRetry.                                           *)
(***************************************************************************)
CallEnded == call.st \in {"returned", "thrown"}
StatusesOf(fs) == [i \in 1..Len(fs) |-> fs[i].status]

C12_DelayBeforeAttempt ==
    /\ call.attempt >= 1 => Len(call.delays) = call.attempt - 1
    /\ \A n \in 2..(Len(call.delays) + 1) :
          call.delays[n - 1] = RETRY_BASE_DELAY * 2 ^ (n - 2)

C12_Scenario ==
    (call.maxRetries = 3 /\ StatusesOf(call.fetches) = <<503, 503, 200>>) =>
        /\ call.st = "returned"
        /\ call.result.status = 200
        /\ call.delays = <<RETRY_BASE_DELAY, 2 * RETRY_BASE_DELAY>>

\* C12: the delay waited before attempt n >= 2 is RETRY_BASE_DELAY * 2^(n-2),
\* one delay before each such attempt; the responses 503, 503, 200 with
\* three attempts allowed end with the 200 response after the delays 1x and
\* 2x the base.
C12_Backoff == C12_DelayBeforeAttempt /\ C12_Scenario

C12_Witness ==
    /\ call.maxRetries = 3
    /\ StatusesOf(call.fetches) = <<503, 503, 200>>
    /\ call.st = "returned"

\* C13: an attempt answered with a status in 500..599 or with 429 while
\* attempts remain does not end the call: the call waits and tries again.
C13_RetryableStatuses ==
    \A i \in 1..Len(call.fetches) :
        ((call.fetches[i].status \in 500..599 \cup {429})
            /\ i < call.maxRetries)
        => ~(CallEnded /\ Len(call.fetches) = i)

ClientError(status) == status \in 400..499 /\ status # 429

\* C14: a response with a 4xx status other than 429 ends the call at that
\* attempt, returned and not retried; as the first response it ends the call
\* after one attempt with no delay.
C14_ClientErrorEnds ==
    \A i \in 1..Len(call.fetches) :
        ClientError(call.fetches[i].status) =>
            /\ i = Len(call.fetches)
            /\ call.st = "returned"
            /\ call.result = [status |-> call.fetches[i].status,
                               error |-> "none"]
            /\ call.attempt = i
            /\ Len(call.delays) = i - 1

C14_Witness ==
    /\ call.maxRetries = 3
    /\ StatusesOf(call.fetches) = <<404>>
    /\ call.st = "returned"
    /\ call.delays = <<>>

\* C15: an attempt that fails with an AbortError ends the call at once with
\* that error, at any attempt number: no delay follows, no attempt follows.
C15_AbortEnds ==
    \A i \in 1..Len(call.fetches) :
        call.fetches[i] = AbortOutcome =>
            /\ i = Len(call.fetches)
            /\ call.st = "thrown"
            /\ call.result.error = "AbortError"
            /\ call.attempt = i
            /\ Len(call.delays) = i - 1

C15_Witness ==
    /\ call.maxRetries = 3
    /\ Len(call.fetches) = 2
    /\ call.fetches[2] = AbortOutcome
    /\ call.st = "thrown"

(***************************************************************************)
(* Properties of the capability probe.                                     *)
(***************************************************************************)
Probed == obs.fn = "checkModelToolSupport"

\* the three checks, on the observed inputs
AnyCheck ==
    \/ hasToolTemplate(obs.data)
    \/ hasToolModelfile(obs.data)
    \/ isKnownToolFamily(obs.modelName)

\* C11 as stated: the value of a probe is true exactly if one of the three
\* checks is true.
C11_ValueIsAnyCheck == Probed => (obs.value <=> AnyCheck)

\* the metadata request succeeded and its body is an object whose template
\* and modelfile are strings or absent
MetadataRead ==
    /\ ResponseOk(obs.o)
    /\ obs.data.parsed
    /\ obs.data.template.kind # "other"
    /\ obs.data.modelfile.kind # "other"

WordsOf(f) == {f.words[i] : i \in 1..Len(f.words)}

\* C11: when the metadata has been read, the value of the probe is true
\* exactly if one of the three checks is true (marker in the template,
\* 'tool' or 'function call' in the modelfile, family in the model name,
\* each without regard to case); in every other case the value is false.
C11_ProbeValue ==
    Probed =>
        /\ MetadataRead => (obs.value <=> AnyCheck)
        /\ ~MetadataRead => ~obs.value
        /\ (MetadataRead /\ obs.modelName = "Qwen3:8b") => obs.value
        /\ (MetadataRead /\ "<TOOL_CALL>" \in WordsOf(obs.data.template))
              => obs.value
        /\ (MetadataRead /\ "tools" \in WordsOf(obs.data.modelfile))
              => obs.value
        /\ (MetadataRead /\ obs.modelName \in {"m1", "llama2"}
              /\ obs.data.modelfile = Absent
              /\ WordsOf(obs.data.template) \subseteq {"tools", "FROM", "call"})
              => ~obs.value

\* only the modelfile check succeeds, on the words 'Function call'
C11_Witness ==
    /\ Probed
    /\ MetadataRead
    /\ obs.modelName = "llama2"
    /\ obs.data.template = Absent
    /\ obs.data.modelfile = [kind |-> "string", words |-> <<"Function", "call">>]
    /\ obs.value

(***************************************************************************)
(* The text of the final model response (src/content.js:1336-1390).        *)
(* A field of the response is                                              *)
(*   "absent"  undefined or null                                           *)
(*   "empty"   the string ''                                               *)
(*   "blank"   a string of white space                                     *)
(*   "text"    a string with a character that trim() keeps                 *)
(*   "other"   a truthy value that is not a string                         *)
(* and data.message may also be an object with fields content and text.    *)
(***************************************************************************)
FieldKinds == {"absent", "empty", "blank", "text", "other"}

\* what `v && ...` tests
Truthy(v) == v \in {"blank", "text", "other"}

\* typeof v === 'string' && v.trim().length > 0
NonBlank(v) == v = "text"

Messages ==
    [kind : FieldKinds, content : {"absent"}, text : {"absent"}]
        \cup [kind : {"object"}, content : FieldKinds, text : FieldKinds]

\* the parsed body of the last /api/chat response: an object or a string
FinalData ==
    [kind : {"object"}, value : {"absent"}, message : Messages,
     response : FieldKinds, content : FieldKinds, done : BOOLEAN]
        \cup [kind : {"string"}, value : {"empty", "blank", "text"},
              message : {[kind |-> "absent", content |-> "absent",
                          text |-> "absent"]},
              response : {"absent"}, content : {"absent"}, done : {FALSE}]

\* the last resort (src/content.js:1355-1363): data.message itself, then
\* data.message.text, whose trim() is called without a typeof test
LastResort(m) ==
    IF NonBlank(m.kind) THEN [kind |-> "content", from |-> "message"]
    ELSE IF ~Truthy(m.text) THEN [kind |-> "none", from |-> "none"]
    ELSE IF m.text = "other" THEN [kind |-> "throw", from |-> "TypeError"]
    ELSE IF NonBlank(m.text) THEN [kind |-> "content", from |-> "message.text"]
    ELSE [kind |-> "none", from |-> "none"]

\* the if / else-if chain that sets responseContent (src/content.js:1336-1363)
Strategies(data) ==
    IF data.message.kind = "object" /\ NonBlank(data.message.content)
    THEN [kind |-> "content", from |-> "message.content"]
    ELSE IF NonBlank(data.response)
    THEN [kind |-> "content", from |-> "response"]
    ELSE IF NonBlank(data.content)
    THEN [kind |-> "content", from |-> "content"]
    ELSE IF data.kind = "string" /\ NonBlank(data.value)
    THEN [kind |-> "content", from |-> "data"]
    ELSE IF data.message.kind = "object" \/ Truthy(data.message.kind)
    THEN LastResort(data.message)
    ELSE [kind |-> "none", from |-> "none"]

\* src/content.js:1336-1390: the extracted text, the canned text when there
\* is none and data.done === true, else the Error of line 1389
ExtractContent(data) ==
    LET r == Strategies(data)
    IN  IF r.kind # "none" THEN r
        ELSE IF data.done THEN [kind |-> "content", from |-> "canned"]
        ELSE [kind |-> "throw", from |-> "Invalid response from AI model"]

\* the final part of performFactCheck on some parsed body
ExtractApply ==
    /\ obs = NoObs
    /\ \E data \in FinalData :
          obs' = [fn |-> "extractContent", data |-> data,
                  result |-> ExtractContent(data)]
    /\ UNCHANGED <<panelVars, call>>

\* ExtractSpec  the text of one final model response
ExtractSpec == Init /\ [][ExtractApply]_vars

\* which field of the body holds a non-blank string that a strategy reads
YieldsText(data) ==
    \/ data.message.kind = "object" /\ data.message.content = "text"
    \/ data.response = "text"
    \/ data.content = "text"
    \/ data.kind = "string" /\ data.value = "text"
    \/ data.message.kind = "text"
    \/ data.message.kind = "object" /\ data.message.text = "text"

\* C21: every returned result has non-empty content, and a final response
\* from which no strategy yields non-empty text but with done = true gives
\* the canned UNVERIFIABLE verdict with LOW confidence.
C21_CannedWhenDone ==
    obs.fn = "extractContent" =>
        /\ obs.result.kind = "content" =>
              (obs.result.from = "canned" \/ YieldsText(obs.data))
        /\ (~YieldsText(obs.data) /\ obs.data.done) =>
              (obs.result.kind = "content" /\ obs.result.from = "canned")

\* C22: a final model response from which no strategy yields text never
\* fails the session with an error.
C22_ShapeNeverFatal ==
    \A s \in SessionIds : sessions[s].outcome # "invalid_response"

(***************************************************************************)
(* C23: a failed web search.                                               *)
(***************************************************************************)
\* session s finishes a search in this step
C23_SearchStep(s) ==
    /\ sessions[s].pc = "search"
    /\ sessions'[s].todo # sessions[s].todo

\* what follows the search: the next web_search call, or the next request
C23_Continues(s) ==
    LET rest == DropSkipped(Tail(sessions[s].todo))
    IN  IF rest = <<>>
        THEN /\ sessions'[s].pc = "chat"
             /\ sessions'[s].chats = sessions[s].chats + 1
        ELSE IF Head(rest) = "web_search"
        THEN /\ sessions'[s].pc = "search"
             /\ sessions'[s].searches = sessions[s].searches + 1
        ELSE sessions'[s].outcome = "args_error"

C23_Step ==
    \A s \in SessionIds :
        (C23_SearchStep(s) /\ sessions'[s].lastTool = "failed") =>
            /\ collectedSources' = collectedSources
            /\ ~sessions[s].aborted => C23_Continues(s)
            /\ sessions'[s].outcome \in {"none", "args_error", "timeout"}

\* C23: a web search that fails does not abort the session: the tool-result
\* message carries the failure summary, no source is added, and the session
\* goes on to its next tool call or sends the next model request.
C23_FailedSearchContinues == [][C23_Step]_vars

\* after a failed search the next model request is out, with no source
C23_Witness ==
    \E s \in SessionIds :
        /\ sessions[s].lastTool = "failed"
        /\ sessions[s].pc = "chat"
        /\ sessions[s].chats = 2
        /\ ~sessions[s].aborted
        /\ collectedSources = <<>>

(***************************************************************************)
(* C24: who aborted.                                                       *)
(***************************************************************************)
\* C24: only the expiry of the request timer gives the timeout error; a
\* session aborted by the panel being hidden or closed ends otherwise.
C24_TimeoutOnlyByTimer ==
    \A s \in SessionIds :
        sessions[s].outcome = "timeout" => sessions[s].abortedBy = "timer"

(***************************************************************************)
(* C25: where the requests of a session go.                                *)
(***************************************************************************)
\* the requests made on behalf of a session and their hosts:
\* CONFIG.OLLAMA_ENDPOINT for /api/chat, html.duckduckgo.com for a search
\* whose q parameter is the query of the model's tool call
C25_RequestKinds == {"chat", "search"}
OLLAMA_ENDPOINT == "http://localhost:11434"
Destination(kind) ==
    IF kind = "search" THEN "https://html.duckduckgo.com" ELSE OLLAMA_ENDPOINT

\* requests of a kind sent so far for session sr
C25_Sent(sr, kind) == IF kind = "chat" THEN sr.chats ELSE sr.searches

\* C25: every request of a fact-check session goes to the local model
\* server; nothing derived from the claim is sent to another server.
C25_OnlyLocalRequests ==
    \A s \in SessionIds : \A kind \in C25_RequestKinds :
        C25_Sent(sessions[s], kind) > 0 => Destination(kind) = OLLAMA_ENDPOINT

(***************************************************************************)
(* Source credibility (src/content.js:711-803).  A domain is the sequence  *)
(* of its labels, the text between its dots: "www.cdc.gov" is              *)
(* <<"www", "cdc", "gov">> and the empty string is << >>.  The entries of  *)
(* the lists are written the same way.                                     *)
(***************************************************************************)
MaxLabels == 3        \* labels of a domain

tier1 ==
    {<<"reuters", "com">>, <<"apnews", "com">>, <<"afp", "com">>,
     <<"dpa", "com">>, <<"efe", "com">>, <<"bbc", "com">>,
     <<"bbc", "co", "uk">>, <<"npr", "org">>, <<"pbs", "org">>,
     <<"c-span", "org">>, <<"nature", "com">>, <<"science", "org">>,
     <<"scientificamerican", "com">>, <<"nejm", "org">>,
     <<"thelancet", "com">>, <<"jamanetwork", "com">>, <<"cell", "com">>,
     <<"pubmed", "ncbi", "nlm", "nih", "gov">>, <<"nih", "gov">>,
     <<"who", "int">>, <<"un", "org">>, <<"europa", "eu">>,
     <<"worldbank", "org">>, <<"imf", "org">>, <<"fullfact", "org">>,
     <<"aap", "com", "au">>}

tier2 ==
    {<<"nytimes", "com">>, <<"washingtonpost", "com">>, <<"wsj", "com">>,
     <<"theatlantic", "com">>, <<"theguardian", "com">>,
     <<"economist", "com">>, <<"ft", "com">>, <<"bloomberg", "com">>,
     <<"lemonde", "fr">>, <<"spiegel", "de">>, <<"elpais", "com">>,
     <<"smh", "com", "au">>, <<"globalnews", "ca">>, <<"snopes", "com">>,
     <<"politifact", "com">>, <<"factcheck", "org">>,
     <<"wikipedia", "org">>, <<"britannica", "com">>,
     <<"propublica", "org">>, <<"theintercept", "com">>,
     <<"icij", "org">>, <<"statnews", "com">>, <<"arstechnica", "com">>,
     <<"theverge", "com">>, <<"scholar", "google", "com">>,
     <<"jstor", "org">>, <<"arxiv", "org">>}

tier3 ==
    {<<"cnn", "com">>, <<"cbsnews", "com">>, <<"abcnews", "go", "com">>,
     <<"nbcnews", "com">>, <<"usatoday", "com">>, <<"time", "com">>,
     <<"newsweek", "com">>, <<"forbes", "com">>,
     <<"businessinsider", "com">>, <<"axios", "com">>,
     <<"politico", "com">>, <<"thehill", "com">>, <<"vox", "com">>,
     <<"slate", "com">>, <<"salon", "com">>, <<"aljazeera", "com">>,
     <<"dw", "com">>, <<"france24", "com">>, <<"rt", "com">>,
     <<"scmp", "com">>}

tier4 ==
    {<<"foxnews", "com">>, <<"msnbc", "com">>, <<"breitbart", "com">>,
     <<"dailykos", "com">>, <<"theblaze", "com">>,
     <<"motherjones", "com">>, <<"dailywire", "com">>,
     <<"dailymail", "co", "uk">>, <<"nypost", "com">>,
     <<"thesun", "co", "uk">>, <<"mirror", "co", "uk">>,
     <<"huffpost", "com">>, <<"buzzfeed", "com">>,
     <<"buzzfeednews", "com">>}

UNRELIABLE_DOMAINS ==
    {<<"naturalnews", "com">>, <<"infowars", "com">>,
     <<"beforeitsnews", "com">>, <<"worldtruth", "tv">>,
     <<"yournewswire", "com">>, <<"newspunch", "com">>,
     <<"thegatewaypundit", "com">>, <<"zerohedge", "com">>,
     <<"globalresearch", "ca">>, <<"collective-evolution", "com">>,
     <<"davidwolfe", "com">>, <<"realfarmacy", "com">>}

\* the labels domains are made of here
Labels == {"infowars", "com", "gov", "EDU", "mil", "reuters", "nytimes",
           "breitbart", "nypost", "uk", "ac", "example"}

\* toLowerCase of a label
LowerLabel(l) == IF l = "EDU" THEN "edu" ELSE l

\* domain.toLowerCase()
LowerDomain(d) == [i \in 1..Len(d) |-> LowerLabel(d[i])]

\* label l ends with x: of the first labels of the list entries, a label of
\* Labels ends only with itself, but "breitbart" also ends with "rt"
LabelEndsWith(l, x) == l = x \/ (l = "breitbart" /\ x = "rt")

\* String.prototype.includes: entry e occurs in d from label i on when the
\* dots coincide, d[i] ends with the first label of e, the labels between
\* are equal, and the last label of e starts the label of d it falls on
\* (of the last labels of the list entries, a label of Labels starts only
\* with itself)
IncludesDomain(d, e) ==
    LET k == Len(e)
    IN  \E i \in 1..(Len(d) - k + 1) :
           /\ LabelEndsWith(d[i], e[1])
           /\ \A j \in 2..k : d[i + j - 1] = e[j]

\* list.some(e => domainLower.includes(e))
SomeIncluded(list, d) == \E e \in list : IncludesDomain(d, e)

\* String.prototype.endsWith('.' + suffix): the last labels of d are those
\* of suffix and a label precedes them
EndsWithSuffix(d, suffix) ==
    /\ Len(d) > Len(suffix)
    /\ SubSeq(d, Len(d) - Len(suffix) + 1, Len(d)) = suffix

TrustedSuffixUS(d) ==
    \E x \in {<<"gov">>, <<"edu">>, <<"mil">>} :
        EndsWithSuffix(d, x)

\* the endsWith tests of src/content.js:786-794
TrustedSuffix(d) ==
    \E x \in {<<"gov">>, <<"gov", "uk">>, <<"gov", "au">>, <<"gov", "ca">>,
              <<"gc", "ca">>, <<"edu">>, <<"ac", "uk">>, <<"edu", "au">>,
              <<"mil">>} :
        EndsWithSuffix(d, x)

getSourceTierListsFirst(domain) ==
    LET domainLower == LowerDomain(domain)
    IN  IF SomeIncluded(UNRELIABLE_DOMAINS, domainLower) THEN 5
        ELSE IF SomeIncluded(tier1, domainLower) THEN 1
        ELSE IF SomeIncluded(tier2, domainLower) THEN 2
        ELSE IF SomeIncluded(tier3, domainLower) THEN 3
        ELSE IF SomeIncluded(tier4, domainLower) THEN 4
        ELSE IF TrustedSuffix(domainLower) THEN 1
        ELSE 4

\* function getSourceTier(domain) (src/content.js:779-803)
getSourceTier(domain) ==
    LET domainLower == LowerDomain(domain)
    IN  IF SomeIncluded(UNRELIABLE_DOMAINS, domainLower) THEN 5
        ELSE IF TrustedSuffix(domainLower) THEN 1
        ELSE IF SomeIncluded(tier1, domainLower) THEN 1
        ELSE IF SomeIncluded(tier2, domainLower) THEN 2
        ELSE IF SomeIncluded(tier3, domainLower) THEN 3
        ELSE IF SomeIncluded(tier4, domainLower) THEN 4
        ELSE 4

\* getSourceTier of some domain
TierApply ==
    /\ obs = NoObs
    /\ \E domain \in SeqsUpTo(Labels, MaxLabels) :
          obs' = [fn |-> "getSourceTier", domain |-> domain,
                  tier |-> getSourceTier(domain)]
    /\ UNCHANGED <<panelVars, call>>

\* TierSpec  getSourceTier of one domain
TierSpec == Init /\ [][TierApply]_vars

\* the domain ends in one of the suffixes, whatever the case of its letters
C26_Suffixed(d) ==
    /\ Len(d) >= 2
    /\ \/ LowerLabel(d[Len(d)]) \in {"gov", "edu", "mil"}
       \/ /\ Len(d) >= 3
          /\ <<LowerLabel(d[Len(d) - 1]), LowerLabel(d[Len(d)])>>
                \in {<<"gov", "uk">>, <<"gov", "au">>, <<"gov", "ca">>,
                     <<"gc", "ca">>, <<"ac", "uk">>, <<"edu", "au">>}

\* the domain contains an entry of the list
C26_Listed(list, d) == \E e \in list : IncludesDomain(LowerDomain(d), e)

\* C26 as stated: a domain ending in .gov, .edu, .mil or a listed country
\* variant has tier 1, whatever lists it matches.
C26_SuffixAlwaysTier1 ==
    (obs.fn = "getSourceTier" /\ C26_Suffixed(obs.domain)) => obs.tier = 1

\* C26: a domain ending in .gov, .edu, .mil or a listed country variant has
\* tier 1 whatever reputable list it matches, unless it contains an entry
\* of the unreliable list, and then its tier is 5.
C26_SuffixTier1 ==
    (obs.fn = "getSourceTier" /\ C26_Suffixed(obs.domain)) =>
        obs.tier = IF C26_Listed(UNRELIABLE_DOMAINS, obs.domain) THEN 5 ELSE 1

\* the name of a tier-4 tabloid under an academic suffix, in capitals
C26_Witness ==
    /\ obs.fn = "getSourceTier"
    /\ obs.domain = <<"nypost", "com", "EDU">>
    /\ obs.tier = 1

\* C27: getSourceTier returns a tier in 1..5 for every domain, that of the
\* first rule that matches in the order unreliable list, trusted suffix,
\* tier-1, tier-2, tier-3, tier-4 list, and 4 when none matches.
C27_FirstMatchingRule ==
    obs.fn = "getSourceTier" =>
        LET d == obs.domain
            u == C26_Listed(UNRELIABLE_DOMAINS, d)
            s == C26_Suffixed(d)
            l1 == C26_Listed(tier1, d)
            l2 == C26_Listed(tier2, d)
            l3 == C26_Listed(tier3, d)
            l4 == C26_Listed(tier4, d)
        IN  /\ obs.tier \in 1..5
            /\ u => obs.tier = 5
            /\ (~u /\ (s \/ l1)) => obs.tier = 1
            /\ (~u /\ ~s /\ ~l1 /\ l2) => obs.tier = 2
            /\ (~u /\ ~s /\ ~l1 /\ ~l2 /\ l3) => obs.tier = 3
            /\ (~u /\ ~s /\ ~l1 /\ ~l2 /\ ~l3) => obs.tier = 4

\* breitbart.com is on the tier-4 list and contains rt.com of the tier-3
\* list, which is tested first
C27_Witness ==
    /\ obs.fn = "getSourceTier"
    /\ obs.domain = <<"breitbart", "com">>
    /\ obs.tier = 3

(***************************************************************************)
(* performWebSearch (src/content.js:823-881) with parseSearchResults       *)
(* (886-943) and extractDomain (948-955).  A URL is its host, a sequence   *)
(* of labels, and its path; '' is the URL with no host.  A page is its     *)
(* result elements and its links, each in document order.  A result        *)
(* element has a title or not, and the URL of its link; a link has its     *)
(* href and its text.                                                      *)
(***************************************************************************)
MaxElements == 8      \* result elements of a search page
MaxLinks == 11        \* links of a search page

TOP_RESULTS == 7       \* resultsWithTiers.slice(0, 7)
PARSE_LIMIT == 10      \* if (index >= 10) return
FALLBACK_RESULTS == 5  \* results.length >= 5

EmptyUrl == [host |-> <<>>, path |-> ""]

\* hostname.replace('www.', ''): the first "www" label that has a label
\* after it is removed
RemoveWww(host) ==
    LET at == {i \in 1..(Len(host) - 1) : host[i] = "www"}
    IN  IF at = {} THEN host
        ELSE LET i == CHOOSE j \in at : \A k \in at : j <= k
             IN  SubSeq(host, 1, i - 1) \o SubSeq(host, i + 1, Len(host))

\* function extractDomain(url): new URL(url) throws on '', and the URL is
\* returned; the hostname of a URL is in lower case
extractDomain(url) ==
    IF url.host = <<>> THEN <<>>
    ELSE RemoveWww(LowerDomain(url.host))

SearchUrls ==
    {[host |-> <<"www", "reuters", "com">>, path |-> "/a"],
     [host |-> <<"infowars", "com">>, path |-> "/c"]}

\* the elements matching '.result, .results_links_deep'
Elements ==
    [title : {TRUE}, url : SearchUrls]
        \cup {[title |-> FALSE, url |-> EmptyUrl]}

\* resultElements.forEach (src/content.js:896-917): the titled elements
\* among the first ten, in page order; index stands for title and snippet
RECURSIVE ParseFrom(_, _)
ParseFrom(page, i) ==
    IF i > Len(page) \/ i > PARSE_LIMIT THEN <<>>
    ELSE IF page[i].title
    THEN <<[index |-> i, url |-> page[i].url,
            source |-> extractDomain(page[i].url)]>> \o ParseFrom(page, i + 1)
    ELSE ParseFrom(page, i + 1)

\* the links of a page.  The texts: one of more than 20 characters, one of
\* fewer, and two long ones that name a neighbouring page
LinkTexts == {"Reuters: a report on the claim", "Images",
              "Next page of the results", "See the PREVIOUS results"}
ProviderUrl == [host |-> <<"html", "duckduckgo", "com">>, path |-> "/html"]
Links ==
    [href : SearchUrls, text : LinkTexts]
        \cup {[href |-> ProviderUrl, text |-> "Reuters: a report on the claim"],
              [href |-> EmptyUrl, text |-> "Reuters: a report on the claim"]}

\* href && text.length > 20 && !href.includes('duckduckgo.com') &&
\* !text.toLowerCase().includes('next') &&
\* !text.toLowerCase().includes('previous')   (no path of a URL used here
\* contains the provider's name)
LinkKept(link) ==
    /\ link.href # EmptyUrl
    /\ link.text # "Images"
    /\ ~IncludesDomain(link.href.host, <<"duckduckgo", "com">>)
    /\ link.text # "Next page of the results"
    /\ link.text # "See the PREVIOUS results"

\* links.forEach (src/content.js:923-939): a link beyond the first ten, or
\* met when five results have been collected, is passed over
RECURSIVE FallbackFrom(_, _, _)
FallbackFrom(links, i, results) ==
    IF i > Len(links) THEN results
    ELSE IF i > PARSE_LIMIT \/ Len(results) >= FALLBACK_RESULTS
    THEN FallbackFrom(links, i + 1, results)
    ELSE IF LinkKept(links[i])
    THEN FallbackFrom(links, i + 1,
                      Append(results,
                             [index |-> i, url |-> links[i].href,
                              source |-> extractDomain(links[i].href)]))
    ELSE FallbackFrom(links, i + 1, results)

\* function parseSearchResults(html): the structured pass, and the pass
\* over the links if (results.length === 0)
parseSearchResults(page) ==
    LET results == ParseFrom(page.elements, 1)
    IN  IF Len(results) = 0 THEN FallbackFrom(page.links, 1, <<>>)
        ELSE results

\* results.map(r => ({...r, tier: getSourceTier(r.source)}))
WithTiers(results) ==
    [i \in 1..Len(results) |->
        [index |-> results[i].index, url |-> results[i].url,
         source |-> results[i].source,
         tier |-> getSourceTier(results[i].source)]]

InsertByTierFirst(sorted, r) ==
    LET before == SelectSeq(sorted, LAMBDA x : x.tier < r.tier)
        after == SelectSeq(sorted, LAMBDA x : x.tier >= r.tier)
    IN  before \o <<r>> \o after

\* Array.prototype.sort with (a, b) => a.tier - b.tier is stable: an
\* element goes behind those of the same tier that came before it
InsertByTier(sorted, r) ==
    LET before == SelectSeq(sorted, LAMBDA x : x.tier <= r.tier)
        after == SelectSeq(sorted, LAMBDA x : x.tier > r.tier)
    IN  before \o <<r>> \o after

RECURSIVE SortByTier(_)
SortByTier(rs) ==
    IF rs = <<>> THEN <<>>
    ELSE InsertByTier(SortByTier(SubSeq(rs, 1, Len(rs) - 1)), rs[Len(rs)])

\* slice(0, n)
Slice(rs, n) == SubSeq(rs, 1, IF Len(rs) < n THEN Len(rs) ELSE n)

\* performWebSearch for a response o of the provider with page `page`
performWebSearch(o, page) ==
    IF ~ResponseOk(o)
    THEN [success |-> FALSE, results |-> <<>>, summary |-> "failed"]
    ELSE LET results == parseSearchResults(page)
         IN  IF Len(results) = 0
             THEN [success |-> TRUE, results |-> <<>>, summary |-> "empty"]
             ELSE [success |-> TRUE,
                   results |-> Slice(SortByTier(WithTiers(results)),
                                     TOP_RESULTS),
                   summary |-> "results"]

NoPage == [elements |-> <<>>, links |-> <<>>]

\* a page comes with a success status only; the pages of result elements
SearchInputs(o) ==
    IF ResponseOk(o)
    THEN {[elements |-> e, links |-> <<>>] :
             e \in SeqsUpTo(Elements, MaxElements)}
    ELSE {NoPage}

\* one search
SearchApply ==
    /\ obs = NoObs
    /\ \E o \in FetchOutcomes :
          \E page \in SearchInputs(o) :
             obs' = [fn |-> "performWebSearch", o |-> o, page |-> page,
                     value |-> performWebSearch(o, page)]
    /\ UNCHANGED <<panelVars, call>>

\* SearchSpec  one web search
SearchSpec == Init /\ [][SearchApply]_vars

\* parseSearchResults observed on its own, for pages with up to one result
\* element, whose links are kept ones and passed-over ones of one kind
ParsePage(e, ks, kept, other) ==
    [elements |-> e,
     links |-> [i \in DOMAIN ks |-> IF ks[i] THEN kept ELSE other]]

ParseApply ==
    /\ obs = NoObs
    /\ \E e \in SeqsUpTo(Elements, 1), ks \in SeqsUpTo(BOOLEAN, MaxLinks),
          kept \in {l \in Links : LinkKept(l)},
          other \in {l \in Links : ~LinkKept(l)} :
          obs' = [fn |-> "parseSearchResults",
                  page |-> ParsePage(e, ks, kept, other),
                  results |-> parseSearchResults(
                                 ParsePage(e, ks, kept, other))]
    /\ UNCHANGED <<panelVars, call>>

\* ParseSpec  one application of parseSearchResults
ParseSpec == Init /\ [][ParseApply]_vars

\* the parsed candidates of the observed page, with their tiers
C28_Candidates == WithTiers(parseSearchResults(obs.page))

\* C28: the results of a successful search are the first 7 of the parsed
\* candidates stably sorted by tier: at most 7, every one a candidate, tiers
\* non-decreasing, equal tiers in provider order, and every candidate left
\* out has no lower tier than a returned one and, at equal tier, comes
\* later in provider order.
C28_TopSevenStable ==
    (obs.fn = "performWebSearch" /\ obs.value.success) =>
        LET rs == obs.value.results
            cs == C28_Candidates
            out == {c \in Range(cs) : c \notin Range(rs)}
        IN  /\ Len(rs) = IF Len(cs) < 7 THEN Len(cs) ELSE 7
            /\ Range(rs) \subseteq Range(cs)
            /\ \A i, j \in 1..Len(rs) :
                  i < j => \/ rs[i].tier < rs[j].tier
                           \/ /\ rs[i].tier = rs[j].tier
                              /\ rs[i].index < rs[j].index
            /\ \A c \in out : \A i \in 1..Len(rs) :
                  \/ c.tier > rs[i].tier
                  \/ c.tier = rs[i].tier /\ c.index > rs[i].index

\* eight candidates: the one left out is an earlier candidate of a higher
\* tier, and two of the same tier are returned in page order
C28_Witness ==
    /\ obs.fn = "performWebSearch"
    /\ obs.value.success
    /\ Len(C28_Candidates) = 8
    /\ Len(obs.value.results) = 7
    /\ \E c \in Range(C28_Candidates) :
          /\ c \notin Range(obs.value.results)
          /\ c.index < 8
    /\ obs.value.results[1].tier = obs.value.results[2].tier
    /\ obs.value.results[1].tier < obs.value.results[7].tier

(***************************************************************************)
(* displayResults: the verdict and the confidence (src/content.js:         *)
(* 1411-1446).  The text is a sequence of lines, joined by line feeds, and *)
(* a line is a sequence of tokens, joined by one space.                    *)
(***************************************************************************)
MaxLines == 3         \* lines of a result text
MaxTokens == 2        \* tokens of a line

VerdictMarker == "**Verdict:**"
ConfidenceMarker == "**CONFIDENCE:**"
Tokens == {VerdictMarker, ConfidenceMarker, "False", "TRUE", "Partially",
           "Unverifiable", "high", "FALSE."}

\* the token matches [A-Z\s]+ under the i flag: letters only
IsLetters(t) == t \notin {VerdictMarker, ConfidenceMarker, "FALSE."}

\* toUpperCase of a token
UpperToken(t) ==
    CASE t = "False" -> "FALSE"
      [] t = "Partially" -> "PARTIALLY"
      [] t = "Unverifiable" -> "UNVERIFIABLE"
      [] t = "high" -> "HIGH"
      [] t = VerdictMarker -> "**VERDICT:**"
      [] OTHER -> t

\* which of the tested words an upper-case token includes
WordsIn(u) ==
    CASE u = "PARTIALLY" -> {"PARTIALLY", "PARTIAL"}
      [] u \in {"FALSE", "FALSE."} -> {"FALSE"}
      [] u = "TRUE" -> {"TRUE"}
      [] u = "UNVERIFIABLE" -> {"UNVERIF"}
      [] OTHER -> {}

\* value.includes(word)
ValueIncludes(value, word) ==
    \E i \in 1..Len(value) : word \in WordsIn(UpperToken(value[i]))

Contents == SeqsUpTo(SeqsUpTo(Tokens, MaxTokens), MaxLines) \ {<<>>}

NoMatch == [matched |-> FALSE, value |-> <<>>]
Matched(value) == [matched |-> TRUE, value |-> value]

\* /\*\*VERDICT:\*\*\s*([A-Z\s]+?)(?:\n|$)/i tried at the marker that is
\* token k of line l.  The group is the rest of the line when that is
\* letters only.  When the marker ends its line, \s* runs over the line
\* feeds to the next line that has a token, and the group is that line if
\* it is letters only; failing that, the group can still be a line feed
\* that is followed by a line feed or by the end of the text.
VerdictMatchAt(content, l, k) ==
    LET rest == SubSeq(content[l], k + 1, Len(content[l]))
        later == {j \in (l + 1)..Len(content) : content[j] # <<>>}
    IN  IF rest # <<>>
        THEN IF \A i \in 1..Len(rest) : IsLetters(rest[i])
             THEN Matched(rest) ELSE NoMatch
        ELSE IF l = Len(content) THEN NoMatch
        ELSE IF later = {} THEN Matched(<<>>)
        ELSE LET j == CHOOSE x \in later : \A y \in later : x <= y
             IN  IF \A i \in 1..Len(content[j]) : IsLetters(content[j][i])
                 THEN Matched(content[j])
                 ELSE IF j - l >= 2 THEN Matched(<<>>) ELSE NoMatch

\* content.match(...): the match at the first marker that has one
VerdictMatch(content) ==
    LET at == {p \in (1..Len(content)) \X (1..MaxTokens + 1) :
                  /\ p[2] <= Len(content[p[1]])
                  /\ content[p[1]][p[2]] = VerdictMarker
                  /\ VerdictMatchAt(content, p[1], p[2]).matched}
    IN  IF at = {} THEN NoMatch
        ELSE LET p == CHOOSE q \in at : \A r \in at :
                          q[1] < r[1] \/ (q[1] = r[1] /\ q[2] <= r[2])
             IN  VerdictMatchAt(content, p[1], p[2])

\* verdictText (src/content.js:1414-1440)
verdictText(content) ==
    LET m == VerdictMatch(content)
    IN  IF ~m.matched THEN "UNVERIFIABLE"
        ELSE IF ValueIncludes(m.value, "PARTIALLY")
                \/ ValueIncludes(m.value, "PARTIAL") THEN "PARTIALLY TRUE"
        ELSE IF ValueIncludes(m.value, "FALSE") THEN "FALSE"
        ELSE IF ValueIncludes(m.value, "TRUE") THEN "TRUE"
        ELSE IF ValueIncludes(m.value, "UNVERIF") THEN "UNVERIFIABLE"
        ELSE "UNVERIFIABLE"

\* the tokens of the text in reading order
RECURSIVE Flatten(_)
Flatten(content) ==
    IF content = <<>> THEN <<>>
    ELSE Head(content) \o Flatten(Tail(content))

\* (HIGH|MEDIUM|LOW) at the start of a token, in upper case
ConfidenceOf(t) == IF UpperToken(t) = "HIGH" THEN "HIGH" ELSE ""

\* /\*\*CONFIDENCE:\*\*\s*(HIGH|MEDIUM|LOW)/i: the first marker whose next
\* token starts with one of the three (src/content.js:1443-1446)
confidence(content) ==
    LET flat == Flatten(content)
        at == {i \in 1..(Len(flat) - 1) :
                  flat[i] = ConfidenceMarker /\ ConfidenceOf(flat[i + 1]) # ""}
    IN  IF at = {} THEN ""
        ELSE ConfidenceOf(flat[(CHOOSE i \in at : \A j \in at : i <= j) + 1])

\* the verdict and confidence displayResults shows for some text
VerdictApply ==
    /\ obs = NoObs
    /\ \E content \in Contents :
          obs' = [fn |-> "displayResults", content |-> content,
                  verdictText |-> verdictText(content),
                  confidence |-> confidence(content)]
    /\ UNCHANGED <<panelVars, call>>

\* VerdictSpec  the verdict parsing of one result text
VerdictSpec == Init /\ [][VerdictApply]_vars

\* the verdict declarations of the text: line and place of each marker
C29_Declarations(content) ==
    {p \in (1..Len(content)) \X (1..MaxTokens) :
        /\ p[2] <= Len(content[p[1]])
        /\ content[p[1]][p[2]] = VerdictMarker}

\* the declared value: what follows the marker on its line
C29_Value(content, p) ==
    SubSeq(content[p[1]], p[2] + 1, Len(content[p[1]]))

\* the verdict of a declared value, by precedence
C29_Classify(value) ==
    IF ValueIncludes(value, "PARTIAL") THEN "PARTIALLY TRUE"
    ELSE IF ValueIncludes(value, "FALSE") THEN "FALSE"
    ELSE IF ValueIncludes(value, "TRUE") THEN "TRUE"
    ELSE "UNVERIFIABLE"

\* C29: the verdict is that of the declared value, by the precedence
\* PARTIAL, FALSE, TRUE, UNVERIF, whatever the case of the letters; a text
\* with no verdict declaration gives UNVERIFIABLE; the confidence is the
\* declared one and is absent when none is declared.
C29_VerdictPrecedence ==
    obs.fn = "displayResults" =>
        LET ds == C29_Declarations(obs.content)
            flat == Flatten(obs.content)
        IN  /\ ds = {} => obs.verdictText = "UNVERIFIABLE"
            /\ \A p \in ds :
                  (ds = {p} /\ C29_Value(obs.content, p) # <<>>
                   /\ ConfidenceMarker \notin Range(C29_Value(obs.content, p)))
                  => obs.verdictText = C29_Classify(C29_Value(obs.content, p))
            /\ ConfidenceMarker \notin Range(flat) => obs.confidence = ""
            /\ (\E i \in 1..(Len(flat) - 1) :
                   flat[i] = ConfidenceMarker /\ flat[i + 1] = "high")
               => obs.confidence = "HIGH"

(***************************************************************************)
(* The sources displayResults shows (src/content.js:1449, 1491) with       *)
(* extractSources (1511-1533) and buildSourcesSection (1538-1558).  Of the *)
(* text only the matches of /(https?:\/\/[^\s<\]]+)/g count: each is a URL *)
(* followed by the punctuation that the pattern takes along.               *)
(***************************************************************************)
MaxParagraphs == 4    \* paragraphs of a result text that hold URLs

MAX_SOURCES == 5       \* sources.slice(0, 5)

Reuters == [host |-> <<"www", "reuters", "com">>, path |-> "/a"]
NyPost == [host |-> <<"nypost", "com">>, path |-> "/b"]
InfoWars == [host |-> <<"infowars", "com">>, path |-> "/c"]
NyTimes == [host |-> <<"nytimes", "com">>, path |-> "/d"]
Example == [host |-> <<"example", "com">>, path |-> "/e"]
Mit == [host |-> <<"mit", "EDU">>, path |-> "/f"]
LocalServer == [host |-> <<"localhost">>, path |-> "/api"]
LocalhostGuide == [host |-> <<"example", "com">>, path |-> "/localhost"]

TextUrls == {Reuters, NyPost, InfoWars, NyTimes, Example, Mit, LocalServer,
             LocalhostGuide}

\* a match of the pattern: a URL as it stands, or with the punctuation
\* that closes a parenthesis and a sentence
Plain(url) == [url |-> url, trail |-> ""]
Closing(url) == [url |-> url, trail |-> ")."]

\* the paragraphs texts are made of here, each with its matches in order
Paragraphs ==
    {<<Plain(Reuters)>>, <<Closing(Reuters)>>,
     <<Plain(NyPost), Plain(InfoWars)>>, <<Plain(NyTimes), Plain(Example)>>,
     <<Plain(Mit), Plain(LocalServer)>>, <<Plain(LocalhostGuide)>>,
     <<Closing(InfoWars), Plain(Reuters)>>, <<Plain(Example)>>}

\* content.match(urlRegex) || []: the matches of the text in order
Texts == {Flatten(t) : t \in SeqsUpTo(Paragraphs, MaxParagraphs)}

StripNothing(m) ==
    IF m.trail = "" THEN m.url
    ELSE [host |-> m.url.host, path |-> "unstripped"]

\* url.replace(/[.,;:!?)]+$/, ''): the trailing punctuation goes
StripTrailing(m) == m.url

\* url.includes('localhost'): in the host or in the path
IncludesLocalhost(url) ==
    "localhost" \in Range(url.host) \/ url.path = "/localhost"

\* matches.forEach of extractSources (src/content.js:1518-1530); a source
\* is its url and domain (the title is the domain)
RECURSIVE CollectSources(_, _, _)
CollectSources(matches, seen, sources) ==
    IF matches = <<>> THEN sources
    ELSE LET url == StripTrailing(Head(matches))
         IN  IF url \notin seen /\ ~IncludesLocalhost(url)
             THEN CollectSources(Tail(matches), seen \cup {url},
                     Append(sources,
                            [url |-> url, domain |-> extractDomain(url)]))
             ELSE CollectSources(Tail(matches), seen, sources)

\* function extractSources(content)
extractSources(content) ==
    Slice(CollectSources(content, {}, <<>>), MAX_SOURCES)

\* the sources collected from search results (src/content.js:1014-1019)
SearchSources ==
    {[url |-> u, domain |-> extractDomain(u)] : u \in SearchUrls}

\* collectedSources holds a url once
SearchSourceLists ==
    {q \in SeqsUpTo(SearchSources, Cardinality(SearchSources)) :
        \A i, j \in 1..Len(q) : i # j => q[i] # q[j]}

\* getSourceTier of the domains that occur here
TierOf ==
    [d \in {extractDomain(u) : u \in TextUrls \cup SearchUrls} |->
        getSourceTier(d)]

\* [...sources].sort by getSourceTier(a.domain) - getSourceTier(b.domain)
\* (src/content.js:1542-1546)
buildSourcesSection(sources) ==
    LET tiered == [i \in 1..Len(sources) |->
                      [url |-> sources[i].url, domain |-> sources[i].domain,
                       tier |-> TierOf[sources[i].domain]]]
    IN  SortByTier(tiered)

\* src/content.js:1449
sourcesOf(searchSources, content) ==
    IF Len(searchSources) > 0 THEN searchSources
    ELSE extractSources(content)

\* the sources of a result and the list shown for them
SourcesApply ==
    /\ obs = NoObs
    /\ \E searchSources \in SearchSourceLists :
          \E content \in IF searchSources = <<>> THEN Texts ELSE {<<>>} :
             LET sources == sourcesOf(searchSources, content)
             IN  obs' = [fn |-> "sources", searchSources |-> searchSources,
                         content |-> content, sources |-> sources,
                         shown |-> IF Len(sources) > 0
                                   THEN buildSourcesSection(sources)
                                   ELSE <<>>]
    /\ UNCHANGED <<panelVars, call>>

\* SourcesSpec  the sources of one result
SourcesSpec == Init /\ [][SourcesApply]_vars

\* the URLs of the text in order, without their trailing punctuation
C30_Urls(content) == [i \in 1..Len(content) |-> content[i].url]

\* where a URL occurs first
C30_FirstAt(urls, u) ==
    CHOOSE i \in 1..Len(urls) :
        urls[i] = u /\ \A j \in 1..(i - 1) : urls[j] # u

\* a URL of the local host
C30_LocalHost(url) == url.host = <<"localhost">>

\* a URL in which 'localhost' occurs, in the host or after it
C30_NamesLocalhost(url) ==
    \/ \E i \in 1..Len(url.host) : url.host[i] = "localhost"
    \/ url.path = "/localhost"

\* sources are the first five of the URLs of the text that are kept: every
\* one is a kept URL, they stand in the order of their first occurrences,
\* and a kept URL that is missing occurs first after all of them
C30_Extracted(sources, content, keep) ==
    LET urls == C30_Urls(content)
        n == Cardinality(keep)
    IN  /\ Len(sources) = IF n < 5 THEN n ELSE 5
        /\ \A i \in 1..Len(sources) : sources[i].url \in keep
        /\ \A i, j \in 1..Len(sources) :
              i < j => C30_FirstAt(urls, sources[i].url)
                          < C30_FirstAt(urls, sources[j].url)
        /\ \A u \in keep :
              (\A i \in 1..Len(sources) : sources[i].url # u) =>
                  \A i \in 1..Len(sources) :
                      C30_FirstAt(urls, sources[i].url)
                          < C30_FirstAt(urls, u)

\* the list shown holds the sources, in ascending tier order
C30_Shown(shown, sources) ==
    /\ Len(shown) = Len(sources)
    /\ {shown[i].url : i \in 1..Len(shown)}
          = {sources[i].url : i \in 1..Len(sources)}
    /\ \A i \in 1..(Len(shown) - 1) :
          getSourceTier(shown[i].domain) <= getSourceTier(shown[i + 1].domain)

\* C30 as stated: the sources are the collected search sources when there
\* is one; otherwise the URLs of the text, without trailing punctuation,
\* each once, those of the local host left out, at most 5 in order of
\* first occurrence; they are shown in ascending tier order.
C30_SourcesAsStated ==
    obs.fn = "sources" =>
        /\ Len(obs.searchSources) > 0 => obs.sources = obs.searchSources
        /\ Len(obs.searchSources) = 0 =>
              C30_Extracted(obs.sources, obs.content,
                  {u \in Range(C30_Urls(obs.content)) : ~C30_LocalHost(u)})
        /\ C30_Shown(obs.shown, obs.sources)

\* C30: as above, where the URLs left out are those in which 'localhost'
\* occurs anywhere, not only as the host.
C30_Sources ==
    obs.fn = "sources" =>
        /\ Len(obs.searchSources) > 0 => obs.sources = obs.searchSources
        /\ Len(obs.searchSources) = 0 =>
              C30_Extracted(obs.sources, obs.content,
                  {u \in Range(C30_Urls(obs.content)) :
                      ~C30_NamesLocalhost(u)})
        /\ C30_Shown(obs.shown, obs.sources)

\* a text with six URLs to keep, one of them twice (once with punctuation)
\* and one on localhost: the sixth is dropped, and the list shown starts
\* with the .edu source, which is not the first of the text
C30_Witness ==
    /\ obs.fn = "sources"
    /\ obs.searchSources = <<>>
    /\ {Plain(InfoWars), Closing(InfoWars), Plain(LocalServer),
        Plain(Reuters)} \subseteq Range(obs.content)
    /\ Len(obs.sources) = 5
    /\ \A i \in 1..5 : obs.sources[i].url # Reuters
    /\ obs.sources[1].url = NyPost
    /\ obs.shown[1].url = Mit

(***************************************************************************)
(* The transcript of one performFactCheck activation, observed on its own  *)
(* (src/content.js:1161-1328): the request bodies it sends to /api/chat,   *)
(* its messages array and the results array of processToolCalls.  The      *)
(* control part is the session record of the panel model.                  *)
(***************************************************************************)
\* a tool call of a response: the name of its function, with "bad_args" for
\* a web_search call whose arguments cannot be used, and its id (NoId: the
\* call has no id)
NoId == ""
ToolCall(name, id) == [name |-> name, id |-> id]

\* the tool_calls arrays the model server answers with
CallLists ==
    {<<>>,
     <<ToolCall("web_search", "call_1")>>,
     <<ToolCall("web_search", NoId), ToolCall("other", "call_2"),
       ToolCall("web_search", "call_3")>>,
     <<ToolCall("web_search", "call_1"), ToolCall("bad_args", "call_2"),
       ToolCall("web_search", "call_3")>>}

CallNames(calls) == [i \in DOMAIN calls |-> calls[i].name]

\* data.message.tool_calls is absent (hasToolCalls is FALSE) or one of the
\* arrays; an array, also the empty one, is truthy
TranscriptResponses ==
    {[hasToolCalls |-> FALSE, tool_calls |-> <<>>, body |-> b,
      calls |-> <<>>] : b \in Bodies}
    \cup
    {[hasToolCalls |-> TRUE, tool_calls |-> CallNames(c), body |-> b,
      calls |-> c] : c \in CallLists, b \in Bodies}

NoData == [hasToolCalls |-> FALSE, tool_calls |-> <<>>, body |-> "none",
           calls |-> <<>>]

\* a message: the content of a system or user message is the name of its
\* prompt text, that of a tool message the kind of the search summary
Message(role, content) ==
    [role |-> role, content |-> content, tool_calls |-> <<>>,
     tool_call_id |-> NoId]

\* requestBody.messages (src/content.js:1182-1244)
InitialMessages(modelSupportsTools) ==
    <<Message("system", IF modelSupportsTools THEN "tool_persona"
                        ELSE "no_tool_persona"),
      Message("user", IF modelSupportsTools THEN "use_web_search"
                      ELSE "from_knowledge")>>

\* let messages = [...] (src/content.js:1267-1276): a short system prompt
\* "with access to web search" and the user prompt of the tool persona
LoopMessages ==
    <<Message("system", "short_tool_persona"),
      Message("user", "use_web_search")>>

\* messages.push({role: "assistant", content, tool_calls})
AssistantMessage(calls) ==
    [Message("assistant", "content") EXCEPT !.tool_calls = calls]

\* variant: the id of the call is copied as it is
ToolMessageNoPlaceholder(toolCall, summary) ==
    [Message("tool", summary) EXCEPT !.tool_call_id = toolCall.id]

\* results.push({tool_call_id: toolCall.id || 'search_1', role: 'tool', ...})
ToolMessage(toolCall, summary) ==
    [Message("tool", summary) EXCEPT
        !.tool_call_id = IF toolCall.id = NoId THEN "search_1"
                         ELSE toolCall.id]

\* variant: every request declares the tool
RequestBodyWithTools(messages, modelSupportsTools) ==
    [messages |-> messages, tools |-> TRUE]

\* requestBody and continueRequestBody: tools = [WEB_SEARCH_TOOL] is added
\* if (modelSupportsTools)
RequestBody(messages, modelSupportsTools) ==
    [messages |-> messages, tools |-> modelSupportsTools]

\* processToolCalls has gone on to session state sr with results res: while
\* it awaits a search, or when it has thrown, messages is as it was; when it
\* has returned, its results are pushed to messages and the continuation
\* request is sent
AfterToolCalls(o, sr, res) ==
    IF sr.pc = "search" \/ sr.outcome = "args_error"
    THEN [o EXCEPT !.sr = sr, !.results = res]
    ELSE LET all == o.messages \o res
         IN  [o EXCEPT !.sr = sr, !.results = res, !.messages = all,
                       !.requests =
                          IF sr.pc = "chat"
                          THEN Append(@, RequestBody(all,
                                                     sr.modelSupportsTools))
                          ELSE @]

\* performFactCheck up to its first request, for either capability result
TranscriptStart ==
    /\ obs = NoObs
    /\ \E modelSupportsTools \in BOOLEAN :
          obs' = [fn |-> "performFactCheck",
                  sr |-> SendChat([NoSession EXCEPT
                                     !.timeoutId = TRUE, !.claim = "claim",
                                     !.modelSupportsTools = modelSupportsTools]),
                  data |-> NoData, results |-> <<>>, messages |-> <<>>,
                  requests |-> <<RequestBody(
                                    InitialMessages(modelSupportsTools),
                                    modelSupportsTools)>>]
    /\ UNCHANGED <<panelVars, call>>

\* the outstanding /api/chat fetch settles
TranscriptChatRespond ==
    /\ obs.fn = "performFactCheck"
    /\ obs.sr.pc = "chat"
    /\ \E o \in FetchOutcomes :
       \E d \in IF ResponseOk(o) THEN TranscriptResponses ELSE {Unparsable} :
          LET sr == ChatSettled(obs.sr, o, d)
              read == ResponseOk(o) /\ d.body # "unparsable"
              first == IF read /\ Len(obs.requests) = 1
                       THEN [obs EXCEPT
                               !.messages = LoopMessages]
                       ELSE obs
              got == [first EXCEPT !.data = IF read THEN d ELSE NoData]
          IN  obs' =
                IF sr.iterationCount > obs.sr.iterationCount
                THEN AfterToolCalls(
                        [got EXCEPT !.messages =
                                       Append(@, AssistantMessage(d.calls))],
                        sr, <<>>)
                ELSE [got EXCEPT !.sr = sr]
    /\ UNCHANGED <<panelVars, call>>

\* the outstanding performWebSearch settles
TranscriptSearchRespond ==
    /\ obs.fn = "performFactCheck"
    /\ obs.sr.pc = "search"
    /\ \E ok \in BOOLEAN, rs \in ResultLists :
          LET calls == obs.data.calls
              toolCall == calls[Len(calls) - Len(obs.sr.todo) + 1]
          IN  obs' = AfterToolCalls(
                        obs, SearchSettled(obs.sr, ok, rs),
                        Append(obs.results,
                               ToolMessage(toolCall, SummaryKind(ok, rs))))
    /\ UNCHANGED <<panelVars, call>>

TranscriptSpec ==
    Init /\ [][\/ TranscriptStart
              \/ TranscriptChatRespond
              \/ TranscriptSearchRespond]_vars

(***************************************************************************)
(* Properties of the transcript.                                           *)
(***************************************************************************)
\* the activation reads the body of a model response in this step
ResponseRead ==
    /\ obs.fn = "performFactCheck"
    /\ obs.sr.pc = "chat"
    /\ obs' # obs
    /\ obs'.data # NoData

\* C31: the loop body runs for a model response if and only if the response
\* carries one or more tool calls and iterationCount is below
\* MAX_SEARCH_ITERATIONS; a response whose tool-call list is absent or empty
\* ends the loop: iterationCount is not incremented, no search is
\* dispatched and no further model request is sent.
C31_LoopRunsIffToolCalls ==
    [][ResponseRead =>
         LET d == obs'.data
             some == d.hasToolCalls /\ d.calls # <<>>
         IN  /\ (obs'.sr.iterationCount = obs.sr.iterationCount + 1) <=>
                   (some /\ obs.sr.iterationCount < MAX_SEARCH_ITERATIONS)
             /\ ~some =>
                   /\ obs'.sr.iterationCount = obs.sr.iterationCount
                   /\ obs'.sr.searches = obs.sr.searches
                   /\ obs'.requests = obs.requests
                   /\ Ended(obs'.sr)]_vars

\* the activation completes a loop iteration in this step: the continuation
\* request is sent
IterationCompleted ==
    /\ obs.fn = "performFactCheck"
    /\ Len(obs'.requests) = Len(obs.requests) + 1

\* the messages the latest request carries beyond those of the request
\* before it
C32_Appended ==
    LET n == Len(obs.requests)
        before == obs.requests[n].messages
        sent == obs'.requests[n + 1].messages
    IN  SubSeq(sent, Len(before) + 1, Len(sent))

C32_IdOrPlaceholder(toolCall) ==
    IF toolCall.id = NoId THEN "search_1" ELSE toolCall.id

C32_IsSearch(toolCall) == toolCall.name # "other"

\* the tool messages of calls: one for each call, in order
C32_Answers(msgs, calls) ==
    /\ Len(msgs) = Len(calls)
    /\ \A i \in 1..Len(msgs) :
          /\ msgs[i].role = "tool"
          /\ msgs[i].tool_call_id = C32_IdOrPlaceholder(calls[i])
          /\ msgs[i].content \in {"results", "empty", "failed"}

\* a search of the activation settles in this step: its tool message, with
\* the summary of this search, is the next of the results
C32_SearchAnswered ==
    (obs.fn = "performFactCheck" /\ obs.sr.pc = "search" /\ obs' # obs) =>
        /\ Len(obs'.results) = Len(obs.results) + 1
        /\ SubSeq(obs'.results, 1, Len(obs.results)) = obs.results
        /\ obs'.results[Len(obs'.results)].content = obs'.sr.lastTool

\* C32 as stated: each loop iteration appends one assistant message with the
\* tool calls, then one tool-result message per requested tool call, in
\* request order, each with the id of its call or the placeholder.
C32_OnePerToolCall ==
    [][IterationCompleted =>
          /\ C32_Appended # <<>>
          /\ Head(C32_Appended) = AssistantMessage(obs'.data.calls)
          /\ C32_Answers(Tail(C32_Appended), obs'.data.calls)]_vars

\* C32: each loop iteration that processes all its tool calls appends one
\* assistant message with the tool calls, then one tool-result message per
\* requested web_search call (a call of another function gets none), in
\* request order, each with the id of its call, or the placeholder
\* 'search_1' when the call has none, and the summary of its search.
C32_OnePerSearchCall ==
    [][/\ C32_SearchAnswered
       /\ IterationCompleted =>
             /\ C32_Appended # <<>>
             /\ Head(C32_Appended) = AssistantMessage(obs'.data.calls)
             /\ Tail(C32_Appended) = obs'.results
             /\ C32_Answers(obs'.results,
                            SelectSeq(obs'.data.calls, C32_IsSearch))]_vars

\* an iteration with three tool calls, the first without an id, the second
\* of another function, has been completed
C32_Witness ==
    /\ obs.fn = "performFactCheck"
    /\ Len(obs.requests) = 2
    /\ Len(obs.data.calls) = 3
    /\ Len(obs.messages) = 5
    /\ obs.messages[4].tool_call_id = "search_1"
    /\ obs.messages[5].tool_call_id = "call_3"
    /\ obs.messages[4].content = "failed"
    /\ obs.messages[5].content = "results"

IsPrefix(a, b) == Len(a) <= Len(b) /\ SubSeq(b, 1, Len(a)) = a

\* C33: within one session the message list sent with each model request
\* has the message list of the previous request as a prefix: the system and
\* user messages are unchanged and later messages are only added at the end.
C33_AppendOnly ==
    obs.fn = "performFactCheck" =>
        \A i \in 1..(Len(obs.requests) - 1) :
            IsPrefix(obs.requests[i].messages, obs.requests[i + 1].messages)

\* the prompts that tell the model it has web search
C34_SearchPrompts == {"tool_persona", "short_tool_persona", "use_web_search"}

\* C34: the persona (system and user prompt) is chosen once from the
\* capability result at session start and every model request of the
\* session carries it; in a session whose capability is false no request
\* carries a prompt telling the model it has web search.
C34_PersonaKept ==
    obs.fn = "performFactCheck" =>
        \A i \in 1..Len(obs.requests) :
            LET sent == obs.requests[i].messages
            IN  /\ SubSeq(sent, 1, 2) =
                      InitialMessages(obs.sr.modelSupportsTools)
                /\ ~obs.sr.modelSupportsTools =>
                      \A k \in 1..Len(sent) :
                          sent[k].content \notin C34_SearchPrompts

\* every request sent so far declares the tool iff the capability is true
C35_Declared ==
    obs.fn = "performFactCheck" =>
        \A i \in 1..Len(obs.requests) :
            obs.requests[i].tools <=> obs.sr.modelSupportsTools

\* no step of the activation after its start queries the capability: the
\* value it holds stays and no probe is attached to it
C35_NotRequeried ==
    obs.fn = "performFactCheck" =>
        /\ obs'.sr.modelSupportsTools = obs.sr.modelSupportsTools
        /\ obs'.sr.probe = obs.sr.probe

\* C35: every model chat request of a session, the first and the
\* continuations, declares the web_search tool if and only if the
\* capability result obtained at the start of the session was true; the
\* capability is not queried again during the loop.
C35_ToolsIffCapability == []C35_Declared /\ [][C35_NotRequeried]_vars

\* a session whose capability is false has sent three continuation
\* requests
C35_Witness ==
    /\ obs.fn = "performFactCheck"
    /\ ~obs.sr.modelSupportsTools
    /\ Len(obs.requests) = 4
    /\ obs.sr.searches > 0

\* the positions of the links of the observed page that qualify: text of
\* more than 20 characters that is not pagination text, and a link that
\* does not point back to the search provider
C36_Qualifying ==
    {i \in 1..Len(obs.page.links) :
        LET link == obs.page.links[i]
        IN  /\ link.href \notin {EmptyUrl, ProviderUrl}
            /\ link.text \notin {"Images", "Next page of the results",
                                 "See the PREVIOUS results"}}

\* C36: when the structured pass yields zero results, the fallback returns
\* the first min(5, k) qualifying links in document order, k being the
\* number of qualifying links of the whole page; when the structured pass
\* yields a result, the fallback does not run.
C36_FallbackWholePage ==
    obs.fn = "parseSearchResults" =>
        LET structured == ParseFrom(obs.page.elements, 1)
            q == C36_Qualifying
            k == Cardinality(q)
            n == IF k < 5 THEN k ELSE 5
            rs == obs.results
        IN  IF structured # <<>> THEN rs = structured
            ELSE /\ Len(rs) = n
                 /\ \A j \in 1..Len(rs) :
                       /\ rs[j].index \in q
                       /\ rs[j].url = obs.page.links[rs[j].index].href
                       /\ Cardinality({i \in q : i < rs[j].index}) = j - 1

(***************************************************************************)
(* Termination of fetchWithRetry.  Every fetch settles (the browser        *)
(* resolves or rejects its promise) and every backoff timer fires.         *)
(***************************************************************************)
RetryLiveSpec ==
    /\ RetrySpec
    /\ WF_vars(\E o \in RetryOutcomes : CallSettle(o))
    /\ WF_vars(CallDelayElapsed)

\* an attempt rejected with a transport error that isRetryableError accepts
C37_RetryableTransport(o) ==
    o.status = 0 /\ o.err \in {"Failed to fetch", "NetworkError"}

\* no more attempts than maxRetries
C37_Bounded ==
    /\ Len(call.fetches) <= call.maxRetries
    /\ call.attempt <= call.maxRetries

\* a call all of whose attempts failed with a retryable transport error has
\* made maxRetries attempts and has thrown the error of the last one
C37_LastError ==
    (CallEnded /\ \A i \in 1..Len(call.fetches) :
                     C37_RetryableTransport(call.fetches[i])) =>
        /\ call.st = "thrown"
        /\ Len(call.fetches) = call.maxRetries
        /\ call.thrown.name = "TypeError"
        /\ call.thrown.message = call.fetches[call.maxRetries].err

C38_BusyCleared == isFactChecking ~> (~isFactChecking \/ unloaded)

\* C39: in a session whose capability check returned false no web search is
\* ever dispatched, and the searchesPerformed of its result is 0, whatever
\* the responses of the model contain.
C39_NoSearchWithoutCapability ==
    \A s \in SessionIds :
        (sessions[s].pc \notin {"idle", "probe"}
            /\ ~sessions[s].modelSupportsTools) =>
                /\ sessions[s].searches = 0
                /\ sessions[s].pc = "done" =>
                      searchesPerformed(sessions[s]) = 0

\* the position of the first call from position `from` on that is not of
\* another function (0: there is none)
C40_NextSearchCall(calls, from) ==
    LET at == {i \in from..Len(calls) : calls[i].name # "other"}
    IN  IF at = {} THEN 0 ELSE CHOOSE i \in at : \A j \in at : i <= j

\* the call processToolCalls comes to in this step: the first one when the
\* loop body is entered, the one after the search that settles
C40_Reached ==
    IF obs.sr.pc = "chat"
    THEN IF obs'.sr.iterationCount > obs.sr.iterationCount
         THEN C40_NextSearchCall(obs'.data.calls, 1)
         ELSE 0
    ELSE C40_NextSearchCall(obs.data.calls,
                            Len(obs.data.calls) - Len(obs.sr.todo) + 2)

\* C40: when processToolCalls comes to a web_search call whose arguments are
\* not valid JSON or are missing, it throws before the search of that call
\* is dispatched: the session fails with that error, no tool-result message
\* of the iteration is appended (the assistant message stays the last
\* one), the calls after it are not processed and no further model request
\* is sent.
C40_BadArgumentsFatal ==
    [][(/\ obs.fn = "performFactCheck"
        /\ obs' # obs
        /\ C40_Reached # 0
        /\ obs'.data.calls[C40_Reached].name = "bad_args") =>
           /\ obs'.sr.pc = "failed"
           /\ obs'.sr.outcome = "args_error"
           /\ obs'.sr.searches = obs.sr.searches
           /\ obs'.sr.chats = obs.sr.chats
           /\ obs'.requests = obs.requests
           /\ obs'.messages[Len(obs'.messages)] =
                 AssistantMessage(obs'.data.calls)
           /\ \A i \in 1..Len(obs'.messages) :
                 obs'.messages[i].role = "tool" =>
                     i <= Len(obs.requests[Len(obs.requests)].messages)]_vars

\* a first response with a usable call, a call with unusable arguments and
\* a further call: one search was made, its result was not appended, and
\* the session has failed
C40_Witness ==
    /\ obs.fn = "performFactCheck"
    /\ obs.sr.outcome = "args_error"
    /\ Len(obs.data.calls) = 3
    /\ obs.sr.searches = 1
    /\ Len(obs.results) = 1
    /\ Len(obs.requests) = 1
    /\ Len(obs.messages) = 3

=============================================================================
